---- MODULE Spec2Model ----
(***************************************************************************)
(* A model of instauto: the JSON ledger (src/src/db.ts) and the follow /    *)
(* unfollow workflow, quota throttle, page cursor and batch loops           *)
(* (src/src/index.ts).                                                      *)
(*                                                                          *)
(* Time is counted in ticks of ten minutes; sleeps of a few seconds are     *)
(* shorter than a tick and advance the clock by 0 or 1 tick per handler.    *)
(***************************************************************************)
EXTENDS Integers, Sequences, FiniteSets, TLC

VARIABLES
    prevFollowedUsers,    \* db.ts:19  username-keyed object, as its insertion-ordered values
    prevUnfollowedUsers,  \* db.ts:20
    prevLikedPhotos,      \* db.ts:21  array of like records
    followedDb,           \* the file at followedDbPath
    unfollowedDb,         \* the file at unfollowedDbPath
    likedPhotosDb,        \* the file at likedPhotosDbPath
    now,                  \* the wall clock (Date.now()), in ticks
    pc,                   \* position of the single control flow
    lastQuery,            \* result of the last window query (SpecQuery)
    dbHist,               \* history of the ledger calls (SpecDb)
    listing,              \* the remote's paginated listing (SpecCursor)
    gen,                  \* the graphqlQueryUsers generator object
    pulled,               \* the pages the generator has yielded
    requests,             \* the `after` variable of each request sent
    myUserId,             \* index.ts:282  the own user id the listings are asked with
    options,              \* the options Instauto was constructed with
    rel,                  \* per user, the control its profile page shows
    url,                  \* the user whose page the browser is on ("" for none)
    userDataCache,        \* index.ts:267
    cookies,              \* whether the file at cookiesPath exists
    clickLog,             \* follow / unfollow clicks performed on the remote
    lastCall,             \* what the last API call did and returned
    loop                  \* the locals of the running list operation

ledgerVars == <<prevFollowedUsers, prevUnfollowedUsers, prevLikedPhotos>>
fileVars == <<followedDb, unfollowedDb, likedPhotosDb>>
cursorVars == <<listing, gen, pulled, requests, myUserId>>
flowVars == <<options, rel, url, userDataCache, cookies, clickLog, lastCall, loop>>

vars == <<ledgerVars, fileVars, now, pc, lastQuery, dbHist, cursorVars, flowVars>>

\* what the ledger's own operations leave alone
NotLedger == <<cursorVars, flowVars>>

----------------------------------------------------------------------------
(* Bounds *)

MaxTime == 3
MaxLikes == 2
MaxSaveFailures == 1
MaxPages == 3
MaxPageSize == 1
MaxClock == 1
MaxClicks == 2
MaxListClock == 3
MaxLimit == 2
MaxFollowsTotal == 2
MaxCount == 6
MaxImages == 3

Users == {"alice", "bob"}
Hrefs == {"p1"}

Min2(a, b) == IF a < b THEN a ELSE b

\* Infinity as a window duration: every finite age is below it.
Infinity == 0 - 1

----------------------------------------------------------------------------
(* Records and files *)

FollowedUser(username, time, failed, noActionTaken) ==
    [username |-> username, time |-> time, failed |-> failed, noActionTaken |-> noActionTaken]

LikedPhoto(username, href, time) ==
    [username |-> username, href |-> href, time |-> time]

\* A file is absent, unparsable, or holds a JSON array.
AbsentFile == [kind |-> "absent", data |-> <<>>]
CorruptFile == [kind |-> "corrupt", data |-> <<>>]
JsonFile(arr) == [kind |-> "json", data |-> arr]

\* position of username in an insertion-ordered object, 0 when it is no key
KeyIndex(obj, username) ==
    IF \E i \in 1..Len(obj) : obj[i].username = username
    THEN CHOOSE i \in 1..Len(obj) : obj[i].username = username
    ELSE 0

HasKey(obj, username) == KeyIndex(obj, username) # 0

\* an assignment that lands on the first key of the object whatever the username
SetKey_first(obj, user) ==
    IF obj # <<>> THEN [obj EXCEPT ![1] = user] ELSE Append(obj, user)

\* obj[user.username] = user : an existing key keeps its place, a new key goes last
SetKey(obj, user) ==
    IF HasKey(obj, user.username)
    THEN [obj EXCEPT ![KeyIndex(obj, user.username)] = user]
    ELSE Append(obj, user)

\* lodash keyBy(array, 'username'): later elements overwrite earlier ones of the same key
RECURSIVE KeyByFrom(_, _)
KeyByFrom(obj, arr) ==
    IF arr = <<>> THEN obj ELSE KeyByFrom(SetKey(obj, Head(arr)), Tail(arr))

keyBy(arr) == KeyByFrom(<<>>, arr)

\* Object.values(obj)
ObjectValues(obj) == obj

\* JSON.parse(await readFile(path)) succeeded
Readable(file) == file.kind = "json"

----------------------------------------------------------------------------
(* db.ts: save and load *)

\* a save that leaves the likes file as it was
trySaveDbFiles_skipLiked(F, U, L, failAt, files) ==
    [followed   |-> IF failAt = 1 THEN files.followed ELSE JsonFile(ObjectValues(F)),
     unfollowed |-> IF failAt \in {1, 2} THEN files.unfollowed ELSE JsonFile(ObjectValues(U)),
     liked      |-> files.liked]

\* writeFile of the three files in order; failAt names the first write that throws
\* (0: none). The writes after a failed one are skipped, the error is swallowed.
trySaveDbFiles(F, U, L, failAt, files) ==
    [followed   |-> IF failAt = 1 THEN files.followed ELSE JsonFile(ObjectValues(F)),
     unfollowed |-> IF failAt \in {1, 2} THEN files.unfollowed ELSE JsonFile(ObjectValues(U)),
     liked      |-> IF failAt \in {1, 2, 3} THEN files.liked ELSE JsonFile(L)]

\* a load in one try block: the first file that fails ends it
tryLoadDbFrom_oneTry(files, F, U, L) ==
    [followed   |-> IF Readable(files.followed) THEN keyBy(files.followed.data) ELSE F,
     unfollowed |-> IF Readable(files.followed) /\ Readable(files.unfollowed)
                    THEN keyBy(files.unfollowed.data) ELSE U,
     liked      |-> IF Readable(files.followed) /\ Readable(files.unfollowed) /\ Readable(files.liked)
                    THEN files.liked.data ELSE L]

\* the three collections a load yields from the files, given the values held before
tryLoadDbFrom(files, F, U, L) ==
    [followed   |-> IF Readable(files.followed) THEN keyBy(files.followed.data) ELSE F,
     unfollowed |-> IF Readable(files.unfollowed) THEN keyBy(files.unfollowed.data) ELSE U,
     liked      |-> IF Readable(files.liked) THEN files.liked.data ELSE L]

Files == [followed |-> followedDb, unfollowed |-> unfollowedDb, liked |-> likedPhotosDb]

\* what a fresh JSONDB(...) on the same paths would hold
FreshLoad == tryLoadDbFrom(Files, <<>>, <<>>, <<>>)

----------------------------------------------------------------------------
(* db.ts: queries *)

\* the comparison as <=, which would keep a record of exactly the window's age
AgeBelow_inclusive(age, timeUnit) == IF timeUnit = Infinity THEN TRUE ELSE age <= timeUnit

AgeBelow(age, timeUnit) == IF timeUnit = Infinity THEN TRUE ELSE age < timeUnit

InWindow(u, t, timeUnit) == AgeBelow(t - u.time, timeUnit)

FilterWindow(arr, t, timeUnit) == SelectSeq(arr, LAMBDA u : InWindow(u, t, timeUnit))

getPrevFollowedUsers(F) == ObjectValues(F)
getPrevUnfollowedUsers(U) == ObjectValues(U)
getPrevLikedPhotos(L) == L

getFollowedLastTimeUnit(F, t, timeUnit) == FilterWindow(getPrevFollowedUsers(F), t, timeUnit)
getUnfollowedLastTimeUnit(U, t, timeUnit) == FilterWindow(getPrevUnfollowedUsers(U), t, timeUnit)
getLikedPhotosLastTimeUnit(L, t, timeUnit) == FilterWindow(getPrevLikedPhotos(L), t, timeUnit)

getPrevFollowedUser(F, username) == HasKey(F, username)

NoQuery == [coll |-> "none", timeUnit |-> 0, at |-> 0, result |-> <<>>]

----------------------------------------------------------------------------
(* SpecDb: the ledger and its files. The clock stands still here. *)

InitFollowedFiles ==
    {AbsentFile, CorruptFile,
     JsonFile(<<FollowedUser("alice", 0, TRUE, FALSE), FollowedUser("bob", 0, FALSE, FALSE),
                FollowedUser("alice", 0, FALSE, FALSE)>>)}

InitUnfollowedFiles ==
    {AbsentFile, CorruptFile, JsonFile(<<FollowedUser("bob", 0, FALSE, TRUE)>>)}

InitLikedFiles ==
    {AbsentFile, CorruptFile, JsonFile(<<LikedPhoto("alice", "p1", 0)>>)}

AllAbsent == followedDb = AbsentFile /\ unfollowedDb = AbsentFile /\ likedPhotosDb = AbsentFile

\* trail: "absent" after a load of three absent files, "oneLike" after exactly one
\* addLikedPhoto following that, "other" otherwise
NewHist(absent) == [trail |-> IF absent THEN "absent" ELSE "other", saveFailed |-> FALSE, failures |-> 0]

AfterAdd(hist, isLike, failAt) ==
    [trail |-> IF isLike /\ hist.trail = "absent" THEN "oneLike" ELSE "other",
     saveFailed |-> hist.saveFailed \/ failAt # 0,
     failures |-> hist.failures + (IF failAt # 0 THEN 1 ELSE 0)]

\* the writes that may fail: the model lets MaxSaveFailures saves fail per process
FailAts == IF dbHist.failures < MaxSaveFailures THEN 0..3 ELSE {0}

\* no generator has been created
NoGen == [status |-> "none", after |-> 0, hasNextPage |-> FALSE, i |-> 0]

\* line 282: let myUserId: string | undefined
Undefined == "undefined"

IdleCursor ==
    listing = <<>> /\ gen = NoGen /\ pulled = <<>> /\ requests = <<>> /\ myUserId = Undefined

\* a profile the page yields no data for
NoData == [known |-> FALSE, followedByCount |-> 0, followsCount |-> 0, isPrivate |-> FALSE, accept |-> FALSE]

\* an option left null
Null == 0 - 1

\* the option defaults of lines 239-258, the ratios as fractions, excludeUsers as a set
DefaultOptions ==
    [dryRun |-> TRUE, maxFollowsPerHour |-> 20, maxFollowsPerDay |-> 150, maxLikesPerDay |-> 50,
     followUserRatioMin |-> <<1, 5>>, followUserRatioMax |-> <<4, 1>>,
     followUserMaxFollowers |-> Null, followUserMaxFollowing |-> Null,
     followUserMinFollowers |-> Null, followUserMinFollowing |-> Null,
     shouldFollowUser |-> FALSE, excludeUsers |-> {},
     dontUnfollowUntilTimeElapsed |-> 3 * 144]

NoCall == [op |-> "none", user |-> "", threw |-> FALSE, err |-> "", ret |-> "",
           navs |-> 0, writes |-> 0, clicks |-> 0, hadRecord |-> FALSE, control |-> "",
           repeat |-> "", noActionTaken |-> FALSE, trace |-> <<>>,
           steps |-> <<>>, banner |-> "", hadCookies |-> FALSE, hadUnfollowed |-> FALSE,
           caught |-> FALSE, calls |-> <<>>, skipPrivate |-> FALSE, images |-> <<>>,
           nav |-> ""]

\* no list operation is running
NoLoop == [op |-> "none", list |-> <<>>, next |-> 1, i |-> 0, j |-> 0, limit |-> 0,
           skipPrivate |-> FALSE, ret |-> Null, remote |-> "any",
           enableLikeImages |-> FALSE, threw |-> FALSE,
           sources |-> <<>>, total |-> 0, outer |-> FALSE, age |-> 0]

\* no Instauto has been constructed
IdleFlow ==
    /\ options = DefaultOptions
    /\ rel = [u \in Users |-> "Follow"]
    /\ url = ""
    /\ userDataCache = [u \in Users |-> NoData]
    /\ cookies = FALSE
    /\ clickLog = <<>>
    /\ lastCall = NoCall
    /\ loop = NoLoop

InitDb ==
    /\ IdleCursor
    /\ IdleFlow
    /\ prevFollowedUsers = <<>>
    /\ prevUnfollowedUsers = <<>>
    /\ prevLikedPhotos = <<>>
    /\ followedDb \in InitFollowedFiles
    /\ unfollowedDb \in InitUnfollowedFiles
    /\ likedPhotosDb \in InitLikedFiles
    /\ now = 0
    /\ pc = "new"
    /\ lastQuery = NoQuery
    /\ dbHist = NewHist(FALSE)

\* the collections after tryLoadDb, which starts from the empty ones of lines 19-21
SetLoaded(loaded) ==
    /\ prevFollowedUsers' = loaded.followed
    /\ prevUnfollowedUsers' = loaded.unfollowed
    /\ prevLikedPhotos' = loaded.liked

SetFiles(files) ==
    /\ followedDb' = files.followed
    /\ unfollowedDb' = files.unfollowed
    /\ likedPhotosDb' = files.liked

\* await JSONDB({...}): a process constructs the ledger, at start or after a restart
JSONDB ==
    /\ pc \in {"new", "ready"}
    /\ SetLoaded(tryLoadDbFrom(Files, <<>>, <<>>, <<>>))
    /\ pc' = "ready"
    /\ dbHist' = NewHist(AllAbsent)
    /\ UNCHANGED <<fileVars, now, lastQuery, NotLedger>>

\* a like record put at the front of the log
addLikedPhoto_front(username, href, time, failAt) ==
    /\ pc = "ready"
    /\ Len(prevLikedPhotos) < MaxLikes
    /\ prevLikedPhotos' = <<LikedPhoto(username, href, time)>> \o prevLikedPhotos
    /\ SetFiles(trySaveDbFiles(prevFollowedUsers, prevUnfollowedUsers, prevLikedPhotos', failAt, Files))
    /\ dbHist' = AfterAdd(dbHist, TRUE, failAt)
    /\ UNCHANGED <<prevFollowedUsers, prevUnfollowedUsers, now, pc, lastQuery, NotLedger>>

addLikedPhoto(username, href, time, failAt) ==
    /\ pc = "ready"
    /\ Len(prevLikedPhotos) < MaxLikes
    /\ prevLikedPhotos' = Append(prevLikedPhotos, LikedPhoto(username, href, time))
    /\ SetFiles(trySaveDbFiles(prevFollowedUsers, prevUnfollowedUsers, prevLikedPhotos', failAt, Files))
    /\ dbHist' = AfterAdd(dbHist, TRUE, failAt)
    /\ UNCHANGED <<prevFollowedUsers, prevUnfollowedUsers, now, pc, lastQuery, NotLedger>>

\* an upsert that is undone when its save fails
addPrevFollowedUser_atomic(user, failAt) ==
    /\ pc = "ready"
    /\ prevFollowedUsers' = IF failAt = 0 THEN SetKey(prevFollowedUsers, user) ELSE prevFollowedUsers
    /\ SetFiles(trySaveDbFiles(prevFollowedUsers', prevUnfollowedUsers, prevLikedPhotos, failAt, Files))
    /\ dbHist' = AfterAdd(dbHist, FALSE, failAt)
    /\ UNCHANGED <<prevUnfollowedUsers, prevLikedPhotos, now, pc, lastQuery, NotLedger>>

addPrevFollowedUser(user, failAt) ==
    /\ pc = "ready"
    /\ prevFollowedUsers' = SetKey(prevFollowedUsers, user)
    /\ SetFiles(trySaveDbFiles(prevFollowedUsers', prevUnfollowedUsers, prevLikedPhotos, failAt, Files))
    /\ dbHist' = AfterAdd(dbHist, FALSE, failAt)
    /\ UNCHANGED <<prevUnfollowedUsers, prevLikedPhotos, now, pc, lastQuery, NotLedger>>

addPrevUnfollowedUser(user, failAt) ==
    /\ pc = "ready"
    /\ prevUnfollowedUsers' = SetKey(prevUnfollowedUsers, user)
    /\ SetFiles(trySaveDbFiles(prevFollowedUsers, prevUnfollowedUsers', prevLikedPhotos, failAt, Files))
    /\ dbHist' = AfterAdd(dbHist, FALSE, failAt)
    /\ UNCHANGED <<prevFollowedUsers, prevLikedPhotos, now, pc, lastQuery, NotLedger>>

NextDb ==
    \/ JSONDB
    \/ \E u \in Users, h \in Hrefs, failAt \in FailAts : addLikedPhoto(u, h, now, failAt)
    \/ \E u \in Users, failed \in BOOLEAN, failAt \in FailAts :
          addPrevFollowedUser(FollowedUser(u, now, failed, FALSE), failAt)
    \/ \E u \in Users, noActionTaken \in BOOLEAN, failAt \in FailAts :
          addPrevUnfollowedUser(FollowedUser(u, now, FALSE, noActionTaken), failAt)

SpecDb == InitDb /\ [][NextDb]_vars

Memory == [followed |-> prevFollowedUsers, unfollowed |-> prevUnfollowedUsers, liked |-> prevLikedPhotos]

\* C10: absent files load as three empty collections; while every save since
\* the load succeeded a fresh load of the files equals the collections in
\* memory; one addLikedPhoto after an empty start gives one like in memory and
\* one after a reload.
C10_SaveLoadRoundTrip ==
    pc = "ready" =>
        /\ (dbHist.trail = "absent" =>
               Memory = [followed |-> <<>>, unfollowed |-> <<>>, liked |-> <<>>])
        /\ (~dbHist.saveFailed => FreshLoad = Memory)
        /\ (dbHist.trail = "oneLike" /\ ~dbHist.saveFailed =>
               Len(prevLikedPhotos) = 1 /\ Len(FreshLoad.liked) = 1)

C10_Witness ==
    /\ pc = "ready"
    /\ dbHist.trail = "oneLike" /\ ~dbHist.saveFailed
    /\ Len(prevLikedPhotos) = 1
    /\ likedPhotosDb = JsonFile(prevLikedPhotos)

\* the records an object holds for a username
RecordsFor(obj, username) == {obj[i] : i \in {k \in 1..Len(obj) : obj[k].username = username}}

\* the usernames an object holds more than once
Duplicated(obj) == {obj[i].username : i \in {k \in 1..Len(obj) : \E l \in 1..Len(obj) : l # k /\ obj[l].username = obj[k].username}}

\* what an upsert of user into obj, giving obj2, may change
UpsertOnly(obj, obj2, user) ==
    /\ RecordsFor(obj2, user.username) = {user}
    /\ \A v \in Users \ {user.username} : RecordsFor(obj2, v) = RecordsFor(obj, v)
    /\ Len(obj2) = Len(obj) + (IF HasKey(obj, user.username) THEN 0 ELSE 1)

\* C16: a username is never twice in the followed collection nor twice in the
\* unfollowed collection, and an upsert leaves exactly one record of its
\* username, the one given, the records of every other username and the other
\* two collections being as before.
C16_UpsertByUsername ==
    /\ [](Duplicated(prevFollowedUsers) = {} /\ Duplicated(prevUnfollowedUsers) = {})
    /\ [][/\ \A u \in Users, failed \in BOOLEAN, failAt \in 0..3 :
               addPrevFollowedUser(FollowedUser(u, now, failed, FALSE), failAt) =>
                   /\ UpsertOnly(prevFollowedUsers, prevFollowedUsers', FollowedUser(u, now, failed, FALSE))
                   /\ prevUnfollowedUsers' = prevUnfollowedUsers
                   /\ prevLikedPhotos' = prevLikedPhotos
          /\ \A u \in Users, noActionTaken \in BOOLEAN, failAt \in 0..3 :
               addPrevUnfollowedUser(FollowedUser(u, now, FALSE, noActionTaken), failAt) =>
                   /\ UpsertOnly(prevUnfollowedUsers, prevUnfollowedUsers', FollowedUser(u, now, FALSE, noActionTaken))
                   /\ prevFollowedUsers' = prevFollowedUsers
                   /\ prevLikedPhotos' = prevLikedPhotos]_vars

\* the followed file still holds the duplicated array it started with, so the
\* collection came from a load of it, and the record of alice has been replaced
\* by an upsert since, next to the untouched record of bob
C16_Witness ==
    /\ pc = "ready"
    /\ followedDb = JsonFile(<<FollowedUser("alice", 0, TRUE, FALSE), FollowedUser("bob", 0, FALSE, FALSE),
                              FollowedUser("alice", 0, FALSE, FALSE)>>)
    /\ prevFollowedUsers = <<FollowedUser("alice", 0, TRUE, FALSE), FollowedUser("bob", 0, FALSE, FALSE)>>

\* the last record of username in the array of a file
LastOf(data, username) ==
    data[CHOOSE k \in 1..Len(data) :
            /\ data[k].username = username
            /\ \A m \in (k + 1)..Len(data) : data[m].username # username]

\* obj is what a keyed collection holds after loading file: nothing when the file is
\* missing or unparsable, else one record per username of the file, its last one
LoadedKeyed(file, obj) ==
    IF file.kind # "json" THEN obj = <<>>
    ELSE /\ Duplicated(obj) = {}
         /\ {obj[i].username : i \in 1..Len(obj)} = {file.data[k].username : k \in 1..Len(file.data)}
         /\ \A i \in 1..Len(obj) : obj[i] = LastOf(file.data, obj[i].username)

\* C24: a load never raises, and for every combination of missing, unparsable and
\* readable files it leaves empty exactly the collections whose file is missing or
\* unparsable and gives each other collection the content of its file
C24_LoadIsolatesCollections ==
    [][JSONDB =>
          /\ pc' = "ready"
          /\ LoadedKeyed(followedDb, prevFollowedUsers')
          /\ LoadedKeyed(unfollowedDb, prevUnfollowedUsers')
          /\ prevLikedPhotos' = (IF likedPhotosDb.kind = "json" THEN likedPhotosDb.data ELSE <<>>)
          /\ UNCHANGED fileVars]_vars

\* an unparsable followed file and a missing likes file next to the unfollowed file,
\* which alone has been loaded
C24_Witness ==
    /\ pc = "ready"
    /\ followedDb = CorruptFile
    /\ likedPhotosDb = AbsentFile
    /\ unfollowedDb = JsonFile(<<FollowedUser("bob", 0, FALSE, TRUE)>>)
    /\ prevFollowedUsers = <<>>
    /\ prevUnfollowedUsers = <<FollowedUser("bob", 0, FALSE, TRUE)>>
    /\ prevLikedPhotos = <<>>

\* the elements of a sequence
Range(arr) == {arr[i] : i \in 1..Len(arr)}

\* C25: when a write of the save fails, the operation that asked for the save ends
\* without an error, the collections hold what they held plus its mutation, and the
\* record is returned by the later get and window queries
C25_SaveFailureSwallowed ==
    [][/\ \A u \in Users, failed \in BOOLEAN, failAt \in 1..3 :
            addPrevFollowedUser(FollowedUser(u, now, failed, FALSE), failAt) =>
                /\ pc' = "ready"
                /\ UpsertOnly(prevFollowedUsers, prevFollowedUsers', FollowedUser(u, now, failed, FALSE))
                /\ prevUnfollowedUsers' = prevUnfollowedUsers
                /\ prevLikedPhotos' = prevLikedPhotos
                /\ getPrevFollowedUser(prevFollowedUsers', u)
                /\ FollowedUser(u, now, failed, FALSE) \in Range(getFollowedLastTimeUnit(prevFollowedUsers', now', 1))
       /\ \A u \in Users, noActionTaken \in BOOLEAN, failAt \in 1..3 :
            addPrevUnfollowedUser(FollowedUser(u, now, FALSE, noActionTaken), failAt) =>
                /\ pc' = "ready"
                /\ UpsertOnly(prevUnfollowedUsers, prevUnfollowedUsers', FollowedUser(u, now, FALSE, noActionTaken))
                /\ prevFollowedUsers' = prevFollowedUsers
                /\ prevLikedPhotos' = prevLikedPhotos
                /\ FollowedUser(u, now, FALSE, noActionTaken)
                       \in Range(getUnfollowedLastTimeUnit(prevUnfollowedUsers', now', 1))
       /\ \A u \in Users, h \in Hrefs, failAt \in 1..3 :
            addLikedPhoto(u, h, now, failAt) =>
                /\ pc' = "ready"
                /\ prevLikedPhotos' = Append(prevLikedPhotos, LikedPhoto(u, h, now))
                /\ prevFollowedUsers' = prevFollowedUsers
                /\ prevUnfollowedUsers' = prevUnfollowedUsers
                /\ LikedPhoto(u, h, now) \in Range(getLikedPhotosLastTimeUnit(prevLikedPhotos', now', 1))]_vars

\* the followed file was never written, and the collection holds the record of alice
\* whose save failed
C25_Witness ==
    /\ pc = "ready"
    /\ dbHist.saveFailed
    /\ followedDb = AbsentFile
    /\ HasKey(prevFollowedUsers, "alice")

\* the usernames an object holds
Keys(obj) == {obj[i].username : i \in 1..Len(obj)}

\* C26: a step of the ledger that is no load of a new process keeps every username of
\* the followed and of the unfollowed collection, and keeps every like record of the
\* log as it was and where it was, new ones going to the end
C26_LedgerOnlyGrows ==
    [][~JSONDB =>
          /\ Keys(prevFollowedUsers) \subseteq Keys(prevFollowedUsers')
          /\ Keys(prevUnfollowedUsers) \subseteq Keys(prevUnfollowedUsers')
          /\ Len(prevLikedPhotos') >= Len(prevLikedPhotos)
          /\ SubSeq(prevLikedPhotos', 1, Len(prevLikedPhotos)) = prevLikedPhotos]_vars

\* the like of the file, loaded, with a like of bob appended behind it, and both
\* usernames in the followed collection
C26_Witness ==
    /\ pc = "ready"
    /\ prevLikedPhotos = <<LikedPhoto("alice", "p1", 0), LikedPhoto("bob", "p1", 0)>>
    /\ Keys(prevFollowedUsers) = {"alice", "bob"}

----------------------------------------------------------------------------
(* SpecQuery: window queries over a loaded ledger while time passes *)

FollowedSamples ==
    {<<>>}
    \cup {<<FollowedUser("alice", t, FALSE, FALSE)>> : t \in 0..MaxTime}
    \cup {<<FollowedUser("alice", t[1], FALSE, FALSE), FollowedUser("bob", t[2], TRUE, FALSE)>> :
             t \in (0..MaxTime) \X (0..MaxTime)}

UnfollowedSamples ==
    {<<>>}
    \cup {<<FollowedUser("bob", t, FALSE, FALSE)>> : t \in 0..MaxTime}
    \cup {<<FollowedUser("bob", t[1], FALSE, TRUE), FollowedUser("alice", t[2], FALSE, FALSE)>> :
             t \in (0..MaxTime) \X (0..MaxTime)}

LikedSamples ==
    {<<>>}
    \cup {<<LikedPhoto("alice", "p1", t)>> : t \in 0..MaxTime}
    \cup {<<LikedPhoto("alice", "p1", t[1]), LikedPhoto("alice", "p1", t[2])>> :
             t \in (0..MaxTime) \X (0..MaxTime)}

Collections == {"followed", "unfollowed", "liked"}
Durations == 0..(MaxTime + 1) \cup {Infinity}

InitQuery ==
    /\ IdleCursor
    /\ IdleFlow
    /\ prevFollowedUsers = <<>>
    /\ prevUnfollowedUsers = <<>>
    /\ prevLikedPhotos = <<>>
    /\ \E which \in Collections :
          /\ followedDb \in IF which = "followed" THEN {JsonFile(x) : x \in FollowedSamples} ELSE {AbsentFile}
          /\ unfollowedDb \in IF which = "unfollowed" THEN {JsonFile(x) : x \in UnfollowedSamples} ELSE {AbsentFile}
          /\ likedPhotosDb \in IF which = "liked" THEN {JsonFile(x) : x \in LikedSamples} ELSE {AbsentFile}
    /\ now = 0
    /\ pc = "new"
    /\ lastQuery = NoQuery
    /\ dbHist = NewHist(FALSE)

\* a window query of one collection, its result kept for inspection
WindowQuery(coll, timeUnit) ==
    /\ pc = "ready"
    /\ lastQuery' =
          [coll |-> coll, timeUnit |-> timeUnit, at |-> now,
           result |-> CASE coll = "followed" -> getFollowedLastTimeUnit(prevFollowedUsers, now, timeUnit)
                        [] coll = "unfollowed" -> getUnfollowedLastTimeUnit(prevUnfollowedUsers, now, timeUnit)
                        [] OTHER -> getLikedPhotosLastTimeUnit(prevLikedPhotos, now, timeUnit)]
    /\ UNCHANGED <<ledgerVars, fileVars, now, pc, dbHist, NotLedger>>

\* time passes
Tick ==
    /\ now < MaxTime
    /\ now' = now + 1
    /\ UNCHANGED <<ledgerVars, fileVars, pc, lastQuery, dbHist, NotLedger>>

NextQuery ==
    \/ JSONDB
    \/ \E coll \in Collections, d \in Durations : WindowQuery(coll, d)
    \/ Tick

SpecQuery == InitQuery /\ [][NextQuery]_vars

\* the collection the last query read (SpecQuery adds no record after the load)
QueriedCollection ==
    CASE lastQuery.coll = "followed" -> prevFollowedUsers
      [] lastQuery.coll = "unfollowed" -> prevUnfollowedUsers
      [] OTHER -> prevLikedPhotos

\* sub is arr with some elements left out, the order kept
RECURSIVE IsSubsequence(_, _)
IsSubsequence(sub, arr) ==
    IF sub = <<>> THEN TRUE
    ELSE IF arr = <<>> THEN FALSE
    ELSE IF Head(sub) = Head(arr) THEN IsSubsequence(Tail(sub), Tail(arr))
    ELSE IsSubsequence(sub, Tail(arr))

\* C7: a window query with duration d returns exactly the records of its
\* collection with now - time < d, in the collection's order: none for d = 0
\* (no record being in the future), all of them for an unbounded d.
C7_WindowQueryExact ==
    lastQuery.coll # "none" =>
        LET arr == QueriedCollection
            res == lastQuery.result
            d == lastQuery.timeUnit
            young == {i \in 1..Len(arr) : d = Infinity \/ lastQuery.at - arr[i].time < d}
        IN /\ IsSubsequence(res, arr)
           /\ Len(res) = Cardinality(young)
           /\ \A i \in 1..Len(arr) : (\E j \in 1..Len(res) : res[j] = arr[i]) <=> (\E k \in young : arr[k] = arr[i])
           /\ (d = 0 /\ (\A i \in 1..Len(arr) : arr[i].time <= lastQuery.at) => res = <<>>)
           /\ (d = Infinity => res = arr)

\* a record of exactly the window's age is left out, a younger one is returned
C7_Witness ==
    /\ lastQuery.coll = "followed"
    /\ lastQuery.timeUnit = 2
    /\ lastQuery.at = 3
    /\ prevFollowedUsers = <<FollowedUser("alice", 1, FALSE, FALSE), FollowedUser("bob", 2, TRUE, FALSE)>>
    /\ lastQuery.result = <<FollowedUser("bob", 2, TRUE, FALSE)>>

----------------------------------------------------------------------------
(* SpecCursor: graphqlQueryUsers, the page cursor over a remote listing *)

RECURSIVE SumTo(_, _)
SumTo(sizes, k) == IF k = 0 THEN 0 ELSE sizes[k] + SumTo(sizes, k - 1)

\* A remote listing: page k holds sizes[k] usernames (numbered through the
\* listing), ends at cursor k and reports has_next_page = flags[k].
ListingOf(sizes, flags) ==
    [k \in 1..Len(sizes) |->
        [usernames |-> [j \in 1..sizes[k] |-> SumTo(sizes, k - 1) + j],
         end_cursor |-> k,
         has_next_page |-> flags[k]]]

BigListing == ListingOf(<<50, 50, 12>>, <<TRUE, TRUE, FALSE>>)

Listings ==
    {BigListing} \cup
    UNION {{ListingOf(sizes, flags) : sizes \in [1..n -> 0..MaxPageSize], flags \in [1..n -> BOOLEAN]} :
              n \in 1..MaxPages}

\* the `after` of a first request: graphqlVariablesIn carries none
NullCursor == 0

\* The page the remote serves for `after`: the first one for no cursor, else
\* the one behind the page that ended at that cursor; 0 when there is none.
RemotePageIndex(after) ==
    IF after = NullCursor THEN 1
    ELSE IF \E k \in 1..Len(listing) : listing[k].end_cursor = after
         THEN (CHOOSE k \in 1..Len(listing) : listing[k].end_cursor = after) + 1
         ELSE 0

RemoteHasPage(after) == RemotePageIndex(after) \in 1..Len(listing)

\* a generator that keeps sending the cursor it started with
AfterPage_staleCursor(g, page) ==
    [status |-> "yielded", after |-> g.after, hasNextPage |-> page.has_next_page, i |-> g.i + 1]

\* lines 768-770: the generator's variables after it has read a page
AfterPage(g, page) ==
    [status |-> "yielded", after |-> page.end_cursor, hasNextPage |-> page.has_next_page, i |-> g.i + 1]

InitCursor ==
    /\ IdleFlow
    /\ listing \in Listings
    /\ gen = [status |-> "start", after |-> NullCursor, hasNextPage |-> TRUE, i |-> 0]
    /\ pulled = <<>>
    /\ requests = <<>>
    /\ myUserId = Undefined
    /\ prevFollowedUsers = <<>>
    /\ prevUnfollowedUsers = <<>>
    /\ prevLikedPhotos = <<>>
    /\ followedDb = AbsentFile
    /\ unfollowedDb = AbsentFile
    /\ likedPhotosDb = AbsentFile
    /\ now = 0
    /\ pc = "ready"
    /\ lastQuery = NoQuery
    /\ dbHist = NewHist(FALSE)

NotCursor == <<ledgerVars, fileVars, now, pc, lastQuery, dbHist, flowVars>>

Suspended == gen.status \in {"start", "yielded"}

\* next(): one request, one page yielded
PullPage ==
    /\ Suspended
    /\ gen.hasNextPage
    /\ RemoteHasPage(gen.after)
    /\ LET page == listing[RemotePageIndex(gen.after)]
       IN /\ requests' = Append(requests, gen.after)
          /\ pulled' = Append(pulled, page.usernames)
          /\ gen' = AfterPage(gen, page)
    /\ UNCHANGED <<listing, myUserId, NotCursor>>

\* next(): the request fails, or its answer holds no list (page.goto or an
\* assert of lines 757-761 throws); the generator ends with the error
PullThrows ==
    /\ Suspended
    /\ gen.hasNextPage
    /\ requests' = Append(requests, gen.after)
    /\ gen' = [gen EXCEPT !.status = "threw"]
    /\ UNCHANGED <<listing, pulled, myUserId, NotCursor>>

\* next() after the last page: the loop ends, the generator returns
PullReturns ==
    /\ Suspended
    /\ ~gen.hasNextPage
    /\ gen' = [gen EXCEPT !.status = "done"]
    /\ UNCHANGED <<listing, pulled, requests, myUserId, NotCursor>>

NextCursor == PullPage \/ PullThrows \/ PullReturns

SpecCursor == InitCursor /\ [][NextCursor]_vars

RECURSIVE TotalLen(_)
TotalLen(pages) == IF pages = <<>> THEN 0 ELSE Len(Head(pages)) + TotalLen(Tail(pages))

\* C8: every pull that yields a page sent exactly one request; the pages come
\* in the remote's order with their usernames in listing order; each request
\* carries the end_cursor of the page before it; no page is yielded after the
\* first page whose has_next_page is false, and the pull after that page
\* returns without a request; the 50/50/12 listing yields 112 usernames in
\* three pulls and no fourth page.
C8_PageCursor ==
    LET n == Len(pulled)
    IN /\ Len(requests) = n + (IF gen.status = "threw" THEN 1 ELSE 0)
       /\ n <= Len(listing)
       /\ \A k \in 1..n : pulled[k] = listing[k].usernames
       /\ \A k \in 1..Len(requests) :
             requests[k] = IF k = 1 THEN NullCursor ELSE listing[k - 1].end_cursor
       /\ \A k \in 1..(n - 1) : listing[k].has_next_page
       /\ (n > 0 /\ gen.status = "yielded" => gen.hasNextPage = listing[n].has_next_page)
       /\ (gen.status = "done" => n > 0 /\ ~listing[n].has_next_page)
       /\ (listing = BigListing =>
              /\ n <= 3
              /\ (gen.status = "done" => n = 3 /\ TotalLen(pulled) = 112))

C8_Witness ==
    /\ listing = BigListing
    /\ gen.status = "done"
    /\ Len(pulled) = 3
    /\ Len(requests) = 3
    /\ TotalLen(pulled) = 112

----------------------------------------------------------------------------
(* index.ts: the workflow. A handler is an operator from the world it starts
   in and the executor's answers e to the world it leaves and its outcome. *)

\* index.ts:224-225 and the long sleeps, in ticks of ten minutes
dayMs == 144
hourMs == 6
ThrottleSleep == 1
BlockedSleep == 18
botWorkShiftHours == 16

\* 30 minutes, in ticks (line 402)
halfHourMs == 3

\* line 383
maxAttempts == 3

World ==
    [F |-> prevFollowedUsers, U |-> prevUnfollowedUsers, L |-> prevLikedPhotos, files |-> Files,
     rel |-> rel, url |-> url, cache |-> userDataCache, t |-> now, cookies |-> cookies,
     clicks |-> clickLog, navs |-> 0, writes |-> 0, trace |-> <<>>,
     steps |-> <<>>, banner |-> "", calls |-> <<>>]

SetWorld(w) ==
    /\ prevFollowedUsers' = w.F
    /\ prevUnfollowedUsers' = w.U
    /\ prevLikedPhotos' = w.L
    /\ SetFiles(w.files)
    /\ rel' = w.rel
    /\ url' = w.url
    /\ userDataCache' = w.cache
    /\ now' = w.t
    /\ cookies' = w.cookies
    /\ clickLog' = w.clicks

NoRecord == FollowedUser("", 0, FALSE, FALSE)

Ok(w, ret) == [w |-> w, threw |-> FALSE, err |-> "", ret |-> ret, res |-> NoRecord, data |-> NoData]
OkData(w, data) == [w |-> w, threw |-> FALSE, err |-> "", ret |-> "data", res |-> NoRecord, data |-> data]
OkRes(w, res) == [w |-> w, threw |-> FALSE, err |-> "", ret |-> "res", res |-> res, data |-> NoData]
Throw(w, err) == [w |-> w, threw |-> TRUE, err |-> err, ret |-> "", res |-> NoRecord, data |-> NoData]

\* sleep(ms) for a sleep of whole ticks: between ms and 2 ms (deviation 1),
\* and at most 3 seconds in a dry run (line 330)
sleep(w, ticks, dev) ==
    IF options.dryRun THEN w ELSE [w EXCEPT !.t = @ + ticks * dev]

\* the ledger's upserts as the workflow calls them
addPrevFollowedUserW(w, user, e) ==
    [w EXCEPT !.F = SetKey(@, user),
              !.files = trySaveDbFiles(SetKey(w.F, user), w.U, w.L, e.failAt, w.files),
              !.writes = @ + 1, !.steps = Append(@, "write")]

addPrevUnfollowedUserW(w, user, e) ==
    [w EXCEPT !.U = SetKey(@, user),
              !.files = trySaveDbFiles(w.F, SetKey(w.U, user), w.L, e.failAt, w.files),
              !.writes = @ + 1, !.steps = Append(@, "write")]

isAlreadyOnUserPage(w, username) == w.url = username

\* the error of line 397
RetriesExhausted == "Navigate to user failed after 3 attempts"

\* lines 382-404 when every request is answered 429 or 560: the waits of line 402 one
\* after the other, then the error of line 397
gotoExhausted(w, dev) ==
    Throw(sleep(w, (1 + 2 + 3 + 4) * halfHourMs, dev), RetriesExhausted)

\* lines 425-451, with gotoWithRetry's answer given by e.nav
navigateToUser(w, username, e) ==
    IF isAlreadyOnUserPage(w, username) THEN Ok(w, "true")
    ELSE LET w1 == [w EXCEPT !.url = username, !.navs = @ + 1]
         IN CASE e.nav = "404" -> Ok(w1, "false")
              [] e.nav = "200" -> Ok(w1, "true")
              [] e.nav = "200missing" -> Ok(w1, "false")
              [] e.nav = "exhausted" -> gotoExhausted(w1, e.dev)
              [] OTHER -> Throw(w1, "Navigate to user failed")

\* lines 453-455, applied to the result of navigateToUser
UserFound(r) ==
    IF r.threw THEN r
    ELSE IF r.ret = "false" THEN Throw(r.w, "User not found")
    ELSE r

navigateToUserWithCheck(w, username, e) == UserFound(navigateToUser(w, username, e))

\* lines 464-572, after navigateToUserWithCheck; e.data tells where the profile data came from
GetUserData(r, cachedUserData, username, e) ==
    IF r.threw THEN r
    ELSE IF cachedUserData.known THEN OkData(r.w, cachedUserData)
    ELSE CASE e.data \in {"page", "intercepted"} ->
                 OkData([r.w EXCEPT !.cache[username] = e.profile], e.profile)
           [] e.data = "timeout" -> Throw(r.w, "waitForResponse timed out")
           [] OTHER -> OkData(r.w, NoData)

\* lines 457-572
navigateToUserAndGetData(w, username, e) ==
    IF isAlreadyOnUserPage(w, username) /\ w.cache[username].known
    THEN OkData(w, w.cache[username])
    ELSE GetUserData(navigateToUserWithCheck(w, username, e), w.cache[username], username, e)

\* lines 583-587
isActionBlocked(e) ==
    IF ~e.bannerActionBlocked THEN TRUE
    ELSE IF ~e.bannerTryAgain THEN TRUE
    ELSE FALSE

\* the banners the page shows when isActionBlocked looks for them
BannerOf(e) ==
    CASE e.bannerActionBlocked /\ e.bannerTryAgain -> "both"
      [] e.bannerActionBlocked -> "actionBlocked"
      [] e.bannerTryAgain -> "tryAgain"
      [] OTHER -> "none"

\* lines 317-324: unlink(cookiesPath), its error swallowed
tryDeleteCookies(w) ==
    [w EXCEPT !.cookies = FALSE,
              !.steps = Append(@, IF w.cookies THEN "deleteCookies" ELSE "deleteCookiesFailed")]

\* a version that raises the error at once
Cooldown_skipped(w, dev) == w

\* line 594: the sleep of 3 hours
Cooldown(w, dev) == sleep([w EXCEPT !.steps = Append(@, "cooldown")], BlockedSleep, dev)

\* lines 589-597
checkActionBlocked(w, e) ==
    IF isActionBlocked(e)
    THEN Throw(Cooldown(tryDeleteCookies([w EXCEPT !.banner = BannerOf(e)]), e.dev),
               "Aborted operation due to action blocked")
    ELSE Ok([w EXCEPT !.banner = BannerOf(e)], "void")

\* lines 612-637: the control the profile page shows for the account
findFollowButton(w, username) == w.rel[username] = "Follow"

\* a lookup that reports an unfollow control on every page
findUnfollowButton_always(w, username) == TRUE

findUnfollowButton(w, username) == w.rel[username] = "Following"

\* elementHandle.click() on a follow or unfollow control: the remote shows e.after next
Click(w, kind, username, e) ==
    [w EXCEPT !.rel[username] = e.after,
              !.clicks = Append(@, [kind |-> kind, user |-> username, time |-> w.t]),
              !.steps = Append(@, "click")]

\* a version that raises the error of an unconfirmed click without a record
RecordFollow_onlyConfirmed(w, username, elementHandle2, e) ==
    IF elementHandle2
    THEN Ok(addPrevFollowedUserW(w, FollowedUser(username, w.t, FALSE, FALSE), e), "void")
    ELSE Throw(w, "Button did not change state")

\* lines 678-691: the record of the click, and the error of an unconfirmed one
RecordFollow(w, username, elementHandle2, e) ==
    IF elementHandle2
    THEN Ok(addPrevFollowedUserW(w, FollowedUser(username, w.t, FALSE, FALSE), e), "void")
    ELSE Throw(addPrevFollowedUserW(w, FollowedUser(username, w.t, TRUE, FALSE), e),
               "Button did not change state")

\* lines 676-691, after checkActionBlocked
FollowClicked(rb, username, e) ==
    IF rb.threw THEN rb
    ELSE RecordFollow(rb.w, username, findUnfollowButton(rb.w, username), e)

\* lines 659-693, after navigateToUserAndGetData
FollowOnPage(r0, username, e) ==
    IF r0.threw THEN r0
    ELSE IF ~findFollowButton(r0.w, username)
         THEN IF findUnfollowButton(r0.w, username)
              THEN Ok(r0.w, "void")
              ELSE Throw(r0.w, "Follow button not found")
    ELSE IF options.dryRun THEN Ok(r0.w, "void")
    ELSE FollowClicked(checkActionBlocked(Click(r0.w, "follow", username, e), e), username, e)

\* the call of an operation, noted in the world
Called(w, op) == [w EXCEPT !.calls = Append(@, op)]

Stepped(w, step) == [w EXCEPT !.steps = Append(@, step)]

\* lines 657-694
followUser(w, username, e) ==
    FollowOnPage(navigateToUserAndGetData(Called(w, "followUser"), username, e), username, e)

\* a version that records the unconfirmed unfollow before it raises the error
UnfollowClicked_recorded(rb, res, username, e) ==
    IF rb.threw THEN rb
    ELSE IF ~findFollowButton(rb.w, username)
         THEN Throw(addPrevUnfollowedUserW(rb.w, res, e), "Unfollow button did not change state")
         ELSE OkRes(addPrevUnfollowedUserW(rb.w, res, e), res)

\* lines 726-732, after checkActionBlocked
UnfollowClicked(rb, res, username, e) ==
    IF rb.threw THEN rb
    ELSE IF ~findFollowButton(rb.w, username)
         THEN Throw(rb.w, "Unfollow button did not change state")
         ELSE OkRes(addPrevUnfollowedUserW(rb.w, res, e), res)

\* lines 716-736
UnfollowWith(w, res, elementHandle, username, e) ==
    IF options.dryRun THEN OkRes(w, res)
    ELSE IF ~elementHandle THEN OkRes(addPrevUnfollowedUserW(w, res, e), res)
    ELSE UnfollowClicked(checkActionBlocked(Click(w, "unfollow", username, e), e), res, username, e)

\* a version that never flags the record with noActionTaken
UnfollowOnPage_unflagged(r0, username, e) ==
    IF r0.threw THEN r0
    ELSE UnfollowWith(r0.w, FollowedUser(username, r0.w.t, FALSE, FALSE),
                      findUnfollowButton(r0.w, username), username, e)

\* lines 700-736, after navigateToUserAndGetData
UnfollowOnPage(r0, username, e) ==
    IF r0.threw THEN r0
    ELSE UnfollowWith(r0.w, FollowedUser(username, r0.w.t, FALSE, ~findUnfollowButton(r0.w, username)),
                      findUnfollowButton(r0.w, username), username, e)

\* lines 698-737
unfollowUser(w, username, e) ==
    UnfollowOnPage(navigateToUserAndGetData(Called(w, "unfollowUser"), username, e), username, e)

\* a count that takes every unfollowed record of the window
getNumFollowedUsersThisTimeUnit_all(w, timeUnit) ==
    Len(SelectSeq(getPrevFollowedUsers(w.F), LAMBDA u : w.t - u.time < timeUnit))
    + Len(SelectSeq(getPrevUnfollowedUsers(w.U), LAMBDA u : w.t - u.time < timeUnit))

\* lines 339-344
getNumFollowedUsersThisTimeUnit(w, timeUnit) ==
    Len(SelectSeq(getPrevFollowedUsers(w.F), LAMBDA u : w.t - u.time < timeUnit))
    + Len(SelectSeq(getPrevUnfollowedUsers(w.U), LAMBDA u : ~u.noActionTaken /\ w.t - u.time < timeUnit))

\* line 279
getNumLikesThisTimeUnit(w, time) == Len(getLikedPhotosLastTimeUnit(w.L, w.t, time))

\* a quota check that lets a count equal to the quota pass
ReachedLimit_strict(count, quota) == count > quota

\* the comparison of lines 347, 354, 361
ReachedLimit(count, quota) == count >= quota

\* one quota check: it sleeps ten minutes once when the limit is reached
CheckLimit(w, check, reached, dev) ==
    LET w1 == [w EXCEPT !.trace = Append(@, [check |-> check, at |-> w.t, slept |-> reached])]
    IN IF reached THEN sleep(w1, ThrottleSleep, dev) ELSE w1

\* lines 346-351
checkReachedFollowedUserDayLimit(w, dev) ==
    CheckLimit(w, "day", ReachedLimit(getNumFollowedUsersThisTimeUnit(w, dayMs), options.maxFollowsPerDay), dev)

\* lines 353-358
checkReachedFollowedUserHourLimit(w, dev) ==
    CheckLimit(w, "hour", ReachedLimit(getNumFollowedUsersThisTimeUnit(w, hourMs), options.maxFollowsPerHour), dev)

\* lines 360-365
checkReachedLikedUserDayLimit(w, dev) ==
    CheckLimit(w, "likes", ReachedLimit(getNumLikesThisTimeUnit(w, dayMs), options.maxLikesPerDay), dev)

\* lines 367-371
throttle(w, e) ==
    checkReachedLikedUserDayLimit(
        checkReachedFollowedUserHourLimit(
            checkReachedFollowedUserDayLimit(w, e.dev1), e.dev2), e.dev3)

\* a / b > r and a / b < r for a fraction r = <<num, den>> and b > 0
RatioAbove(a, b, r) == a * r[2] > r[1] * b
RatioBelow(a, b, r) == a * r[2] < r[1] * b

\* a check that turns every private profile down
PassesRestrictions_noPrivate(p, skipPrivate) ==
    /\ ~p.isPrivate
    /\ ~(\/ (options.followUserMaxFollowers # Null /\ p.followedByCount > options.followUserMaxFollowers)
         \/ (options.followUserMaxFollowing # Null /\ p.followsCount > options.followUserMaxFollowing)
         \/ (options.followUserMinFollowers # Null /\ p.followedByCount < options.followUserMinFollowers)
         \/ (options.followUserMinFollowing # Null /\ p.followsCount < options.followUserMinFollowing))
    /\ ~(\/ RatioAbove(p.followedByCount, IF p.followsCount = 0 THEN 1 ELSE p.followsCount, options.followUserRatioMax)
         \/ RatioBelow(p.followedByCount, IF p.followsCount = 0 THEN 1 ELSE p.followsCount, options.followUserRatioMin))
    /\ ~(options.shouldFollowUser /\ ~p.accept)

\* lines 967-996: whether the profile passes every configured restriction
PassesRestrictions(p, skipPrivate) ==
    LET followedByCount == p.followedByCount
        followsCount == p.followsCount
        divisor == IF followsCount = 0 THEN 1 ELSE followsCount
    IN /\ ~(p.isPrivate /\ skipPrivate)
       /\ ~(\/ (options.followUserMaxFollowers # Null /\ followedByCount > options.followUserMaxFollowers)
            \/ (options.followUserMaxFollowing # Null /\ followsCount > options.followUserMaxFollowing)
            \/ (options.followUserMinFollowers # Null /\ followedByCount < options.followUserMinFollowers)
            \/ (options.followUserMinFollowing # Null /\ followsCount < options.followUserMinFollowing))
       /\ ~(\/ RatioAbove(followedByCount, divisor, options.followUserRatioMax)
            \/ RatioBelow(followedByCount, divisor, options.followUserRatioMin))
       /\ ~(options.shouldFollowUser /\ ~p.accept)

\* a version that goes on to the follow although a followed record exists
AlreadyFollowed_ignored(w, username) == FALSE

\* line 959: getPrevFollowedUser(username) is set
AlreadyFollowed(w, username) == getPrevFollowedUser(w.F, username)

\* lines 998-1003, after followUser: sleep(30000), less than a tick, then throttle()
FollowedThenThrottle(rf, e) ==
    IF rf.threw THEN rf
    ELSE Ok(throttle(Called([rf.w EXCEPT !.steps = Append(@, "sleep30s")], "throttle"), e), "true")

\* lines 964-1003, after navigateToUserAndGetData
FollowIfAllowed(r0, username, skipPrivate, e) ==
    IF r0.threw THEN r0
    ELSE IF ~r0.data.known THEN Ok(r0.w, "false")
    ELSE IF ~PassesRestrictions(r0.data, skipPrivate) THEN Ok(r0.w, "false")
    ELSE FollowedThenThrottle(followUser(r0.w, username, e), e)

\* lines 958-1004
followUserRespectingRestrictions(w, username, skipPrivate, e) ==
    IF AlreadyFollowed(w, username) THEN Ok(w, "false")
    ELSE FollowIfAllowed(navigateToUserAndGetData(w, username, e), username, skipPrivate, e)

----------------------------------------------------------------------------
(* Spec: the operations on a single account, called in any order *)

Profile(followedByCount, followsCount, isPrivate, accept) ==
    [known |-> TRUE, followedByCount |-> followedByCount, followsCount |-> followsCount,
     isPrivate |-> isPrivate, accept |-> accept]

Controls == {"Follow", "Following", "None"}

\* the executor's answers during one call; an answer the call never asks for
\* keeps its value in EnvBase
EnvBase ==
    [nav |-> "200", data |-> "none", profile |-> NoData, after |-> "None",
     bannerActionBlocked |-> TRUE, bannerTryAgain |-> TRUE, failAt |-> 0,
     dev |-> 1, dev1 |-> 1, dev2 |-> 1, dev3 |-> 1, lag |-> 0, like |-> "noImages"]

Profiles == {Profile(10, 10, FALSE, TRUE), Profile(10, 10, TRUE, TRUE)}

NavFails == {[EnvBase EXCEPT !.nav = n] : n \in {"404", "other", "exhausted"}}

ClickAnswers ==
    {[EnvBase EXCEPT !.after = a, !.bannerActionBlocked = b1, !.bannerTryAgain = b2] :
        a \in Controls, b1 \in BOOLEAN, b2 \in BOOLEAN}

DataAnswers(E) ==
    {[e EXCEPT !.data = "page", !.profile = p] : e \in E, p \in Profiles} \cup E

Lagged(E) == {[e EXCEPT !.lag = l] : e \in E, l \in {0, 1}}

Answers == NavFails \cup {[EnvBase EXCEPT !.data = "timeout"]} \cup DataAnswers(ClickAnswers)

Env == Lagged(Answers)

\* the quotas of the options: <<maxFollowsPerHour, maxFollowsPerDay>>
QuotaPairs == {<<1, 16>>, <<1, 17>>}

OptionSets ==
    {[DefaultOptions EXCEPT !.dryRun = d, !.maxFollowsPerHour = q[1], !.maxFollowsPerDay = q[2],
                            !.maxLikesPerDay = 1] : d \in BOOLEAN, q \in QuotaPairs}

Init ==
    /\ IdleCursor
    /\ prevFollowedUsers = <<>>
    /\ prevUnfollowedUsers = <<>>
    /\ prevLikedPhotos = <<>>
    /\ followedDb = AbsentFile
    /\ unfollowedDb = AbsentFile
    /\ likedPhotosDb = AbsentFile
    /\ now = 0
    /\ pc = "new"
    /\ lastQuery = NoQuery
    /\ dbHist = NewHist(TRUE)
    /\ options \in OptionSets
    /\ rel \in [Users -> Controls]
    /\ url = ""
    /\ userDataCache = [u \in Users |-> NoData]
    /\ cookies \in BOOLEAN
    /\ clickLog = <<>>
    /\ lastCall = NoCall
    /\ loop = NoLoop

NotFlow == <<pc, lastQuery, dbHist, cursorVars>>

\* an assertion that lets only a larger hourly capacity pass
ConfigAccepted_strict(o) == o.maxFollowsPerHour * botWorkShiftHours > o.maxFollowsPerDay

\* line 272: the assertion on the quotas
ConfigAccepted(o) == o.maxFollowsPerHour * botWorkShiftHours >= o.maxFollowsPerDay

\* lines 226-282: Instauto(db, page, options) up to the end of its assertions
Instauto ==
    /\ pc = "new"
    /\ pc' = IF ConfigAccepted(options) THEN "ready" ELSE "failed"
    /\ lastCall' = [NoCall EXCEPT !.op = "Instauto", !.threw = ~ConfigAccepted(options),
                                  !.err = IF ConfigAccepted(options) THEN ""
                                          ELSE "Max follows per hour too low compared to max follows per day"]
    /\ UNCHANGED <<ledgerVars, fileVars, now, lastQuery, dbHist, cursorVars,
                   options, rel, url, userDataCache, cookies, clickLog, loop>>

CanCall == pc = "ready" /\ now < MaxClock /\ Len(clickLog) < MaxClicks

\* how a followUser call ended, for a call that repeats it
FollowOutcome(call) ==
    IF call.clicks = 1 /\ ~call.threw THEN "confirmed"
    ELSE IF call.err = "Button did not change state" THEN "unconfirmed"
    ELSE "other"

\* the record of a call: its outcome and what it did, from the world before and after
CallRecord(op, username, r) ==
    [op |-> op, user |-> username, threw |-> r.threw, err |-> r.err, ret |-> r.ret,
     navs |-> r.w.navs, writes |-> r.w.writes, clicks |-> Len(r.w.clicks) - Len(clickLog),
     hadRecord |-> HasKey(prevFollowedUsers, username), control |-> rel[username],
     repeat |-> IF op = "followUser" /\ lastCall.op = "followUser" /\ lastCall.user = username
                THEN FollowOutcome(lastCall) ELSE "",
     noActionTaken |-> r.res.noActionTaken,
     trace |-> r.w.trace,
     steps |-> r.w.steps, banner |-> r.w.banner, hadCookies |-> cookies,
     hadUnfollowed |-> HasKey(prevUnfollowedUsers, username),
     caught |-> FALSE, calls |-> r.w.calls, skipPrivate |-> FALSE, images |-> <<>>, nav |-> ""]

\* the state after a call: the world it left, a few seconds later
Finish(op, username, r, e) ==
    /\ SetWorld([r.w EXCEPT !.t = @ + (IF options.dryRun THEN 0 ELSE e.lag)])
    /\ lastCall' = CallRecord(op, username, r)
    /\ UNCHANGED <<options, loop, NotFlow>>

\* lines 284-293: a screenshot, whose own failure is swallowed
takeScreenshot(w) == [w EXCEPT !.steps = Append(@, "screenshot")]

\* a catch block that goes on at once
BackOff_skipped(w) == w

\* sleep(20000): 20 to 40 seconds, less than a tick of the clock
BackOff(w) == [w EXCEPT !.steps = Append(@, "backoff")]

\* the catch blocks of lines 1044-1048 and 1143-1147, applied to the outcome of the
\* try block: whatever the error, it is logged and the loop goes on
CatchFailure(r) ==
    IF r.threw THEN [r EXCEPT !.w = BackOff(takeScreenshot([r.w EXCEPT !.steps = Append(@, "catch")]))]
    ELSE r

\* the state after the try / catch around the follow of one account of a list
Finish2(username, r, e) ==
    /\ SetWorld([r.w EXCEPT !.t = @ + (IF options.dryRun THEN 0 ELSE e.lag)])
    /\ lastCall' = [CallRecord("followUserRespectingRestrictions", username, r) EXCEPT !.caught = r.threw]

FollowUser(username) ==
    /\ CanCall
    /\ \E e \in Env : Finish("followUser", username, followUser(World, username, e), e)

UnfollowUser(username) ==
    /\ CanCall
    /\ \E e \in Env : Finish("unfollowUser", username, unfollowUser(World, username, e), e)

FollowUserRespectingRestrictions(username, skipPrivate) ==
    /\ CanCall
    /\ \E e \in Env :
          Finish("followUserRespectingRestrictions", username,
                 followUserRespectingRestrictions(World, username, skipPrivate, e), e)

\* the accounts the calls are about
Targets == {"alice"}

Next ==
    \/ Instauto
    \/ \E u \in Targets : FollowUser(u)
    \/ \E u \in Targets : UnfollowUser(u)
    \/ \E u \in Targets, skipPrivate \in BOOLEAN : FollowUserRespectingRestrictions(u, skipPrivate)

Spec == Init /\ [][Next]_vars

RecordsOf(obj, username) == Len(SelectSeq(obj, LAMBDA x : x.username = username))

\* C1 (as stated): with dryRun disabled, a followUser(u) that repeats a followUser(u),
\* confirmed or unconfirmed, clicks nothing and leaves exactly one followed record for u
C1_FollowTwiceIdempotent ==
    (/\ lastCall.op = "followUser"
     /\ ~options.dryRun
     /\ lastCall.repeat \in {"confirmed", "unconfirmed"})
    => /\ lastCall.clicks = 0
       /\ RecordsOf(prevFollowedUsers, lastCall.user) = 1

\* C2: followUserRespectingRestrictions(u) called while a followed record for u exists
\* returns false without a navigation, a click or a ledger write
C2_ExistingRecordNotRetried ==
    (lastCall.op = "followUserRespectingRestrictions" /\ lastCall.hadRecord)
    => /\ ~lastCall.threw
       /\ lastCall.ret = "false"
       /\ lastCall.navs = 0
       /\ lastCall.clicks = 0
       /\ lastCall.writes = 0

\* a failed record, a follow control on the page, and the call still does nothing
C2_Witness ==
    /\ lastCall.op = "followUserRespectingRestrictions"
    /\ lastCall.hadRecord
    /\ lastCall.control = "Follow"
    /\ ~options.dryRun
    /\ prevFollowedUsers[KeyIndex(prevFollowedUsers, lastCall.user)].failed
    /\ lastCall.ret = "false"

\* the errors of a call that did not get the profile page of the account
NavigationErrors ==
    {"User not found", "Navigate to user failed", "waitForResponse timed out", RetriesExhausted}

NoUnfollowControlEffects ==
    /\ ~lastCall.threw
    /\ lastCall.clicks = 0
    /\ lastCall.ret = "res"
    /\ lastCall.noActionTaken
    /\ lastCall.writes = 1
    /\ RecordsOf(prevUnfollowedUsers, lastCall.user) = 1
    /\ prevUnfollowedUsers[KeyIndex(prevUnfollowedUsers, lastCall.user)].noActionTaken

Untouched ==
    /\ prevFollowedUsers = <<>> /\ prevUnfollowedUsers = <<>> /\ prevLikedPhotos = <<>>
    /\ followedDb = AbsentFile /\ unfollowedDb = AbsentFile /\ likedPhotosDb = AbsentFile
    /\ url = "" /\ clickLog = <<>>

\* C15: the construction fails, before any navigation, ledger write or action, exactly
\* when maxFollowsPerHour * 16 < maxFollowsPerDay
C15_QuotaAssertion ==
    /\ pc = "failed" => lastCall.op = "Instauto" /\ lastCall.threw /\ Untouched
    /\ options.maxFollowsPerHour * 16 < options.maxFollowsPerDay => pc \in {"new", "failed"}
    /\ options.maxFollowsPerHour * 16 >= options.maxFollowsPerDay => pc \in {"new", "ready"}
    /\ pc = "ready" /\ lastCall.op = "Instauto" => ~lastCall.threw /\ Untouched

\* the construction has failed for a daily quota one above sixteen times the hourly one
C15_Witness ==
    /\ pc = "failed"
    /\ options.maxFollowsPerHour * 16 = options.maxFollowsPerDay - 1
    /\ lastCall.threw

BlockedError == "Aborted operation due to action blocked"

RecordOf(obj, username) == obj[KeyIndex(obj, username)]

\* C17: with dryRun disabled, a followUser that clicked and was not stopped as blocked
\* upserts exactly one followed record, failed exactly when the unfollow control is not
\* shown after the click, and raises an error exactly when the record is failed, the
\* write coming before the error
C17_FollowRecordMatchesOutcome ==
    (/\ lastCall.op = "followUser"
     /\ ~options.dryRun
     /\ lastCall.clicks = 1
     /\ lastCall.err # BlockedError)
    => /\ lastCall.writes = 1
       /\ lastCall.steps = <<"click", "write">>
       /\ RecordsOf(prevFollowedUsers, lastCall.user) = 1
       /\ RecordOf(prevFollowedUsers, lastCall.user).failed <=> rel[lastCall.user] # "Following"
       /\ lastCall.threw <=> RecordOf(prevFollowedUsers, lastCall.user).failed

\* an unconfirmed follow: the failed record is there and the error was raised
C17_Witness ==
    /\ lastCall.op = "followUser"
    /\ ~options.dryRun
    /\ lastCall.clicks = 1
    /\ lastCall.err = "Button did not change state"
    /\ HasKey(prevFollowedUsers, lastCall.user)
    /\ RecordOf(prevFollowedUsers, lastCall.user).failed

\* C18: with dryRun disabled, an unfollowUser that clicked and does not find the follow
\* control afterwards raises an error and writes no record
C18_UnconfirmedUnfollowNotRecorded ==
    (/\ lastCall.op = "unfollowUser"
     /\ ~options.dryRun
     /\ lastCall.clicks = 1
     /\ rel[lastCall.user] # "Follow")
    => /\ lastCall.threw
       /\ lastCall.writes = 0
       /\ ~HasKey(prevUnfollowedUsers, lastCall.user) \/ lastCall.hadUnfollowed

\* the unfollow click was not stopped as blocked, and the button did not change
C18_Witness ==
    /\ lastCall.op = "unfollowUser"
    /\ ~options.dryRun
    /\ lastCall.clicks = 1
    /\ lastCall.err = "Unfollow button did not change state"
    /\ ~HasKey(prevUnfollowedUsers, lastCall.user)

\* C19 (as stated): the action-blocked error is raised only when a banner is on the page;
\* with no banner after a click nothing is raised by the check, the cookies stay and
\* there is no extended cooldown
C19_BlockedOnlyWithBanner ==
    (lastCall.op \in {"followUser", "unfollowUser"} /\ lastCall.clicks = 1)
    => /\ lastCall.err = BlockedError => lastCall.banner # "none"
       /\ lastCall.banner = "none" =>
             /\ lastCall.err # BlockedError
             /\ cookies = lastCall.hadCookies
             /\ lastCall.steps[Len(lastCall.steps)] # "cooldown"

\* C20: a call stopped as blocked has, after its click, deleted the cookies (or failed
\* to), then slept the 3 hours, then raised the error, with no second click and no write
C20_BlockedSequence ==
    lastCall.err = BlockedError
    => /\ lastCall.threw
       /\ lastCall.steps \in {<<"click", "deleteCookies", "cooldown">>,
                               <<"click", "deleteCookiesFailed", "cooldown">>}
       /\ lastCall.steps[2] = "deleteCookies" <=> lastCall.hadCookies
       /\ ~cookies
       /\ lastCall.clicks = 1
       /\ lastCall.writes = 0
       /\ ~options.dryRun => now >= BlockedSleep

\* the error was raised although there were no cookies to delete
C20_Witness ==
    /\ lastCall.err = BlockedError
    /\ ~lastCall.hadCookies
    /\ lastCall.steps = <<"click", "deleteCookiesFailed", "cooldown">>
    /\ now >= BlockedSleep

----------------------------------------------------------------------------
(* SpecFollowList: one call of safelyFollowUserList, one await at a time *)

\* the excludeUsers option: the default, or one account of the lists
ExcludeLists == {{}, {"alice"}}

Quotas ==
    {[DefaultOptions EXCEPT !.dryRun = d, !.maxFollowsPerHour = h, !.maxFollowsPerDay = 2,
                            !.maxLikesPerDay = 1, !.excludeUsers = x] :
        d \in BOOLEAN, h \in {1, 2}, x \in ExcludeLists}

\* the lists of at most two different accounts
UserLists == {<<>>} \cup {<<u>> : u \in Users} \cup {uv \in Users \X Users : uv[1] # uv[2]}

InitFollowList ==
    /\ IdleCursor
    /\ prevFollowedUsers = <<>>
    /\ prevUnfollowedUsers = <<>>
    /\ prevLikedPhotos \in {<<>>, <<LikedPhoto("alice", "p1", 0)>>}
    /\ followedDb = AbsentFile
    /\ unfollowedDb = AbsentFile
    /\ likedPhotosDb = IF prevLikedPhotos = <<>> THEN AbsentFile ELSE JsonFile(prevLikedPhotos)
    /\ now = 0
    /\ pc = "ready"
    /\ lastQuery = NoQuery
    /\ dbHist = NewHist(TRUE)
    /\ options \in Quotas
    /\ rel \in [Users -> {"Follow", "Following"}]
    /\ url = ""
    /\ userDataCache = [u \in Users |-> NoData]
    /\ cookies = TRUE
    /\ clickLog = <<>>
    /\ lastCall = NoCall
    /\ loop = NoLoop

\* the sleeps of one throttle(): each between 10 and 20 minutes
ThrottleEnv ==
    {[EnvBase EXCEPT !.dev1 = d1, !.dev2 = d2, !.dev3 = d3] : d1 \in {1, 2}, d2 \in {1, 2}, d3 \in {1, 2}}

ThrottleRecord(w) == [NoCall EXCEPT !.op = "throttle", !.trace = w.trace]

\* line 1135: the call, up to the first await
SafelyFollowUserList(users, skipPrivate, limit) ==
    /\ pc = "ready"
    /\ loop.op = "none"
    /\ loop' = [NoLoop EXCEPT !.op = "safelyFollowUserList", !.list = users, !.skipPrivate = skipPrivate,
                              !.limit = limit]
    /\ pc' = IF users = <<>> THEN "ready" ELSE "throttle"
    /\ UNCHANGED <<ledgerVars, fileVars, now, lastQuery, dbHist, cursorVars,
                   options, rel, url, userDataCache, cookies, clickLog, lastCall>>

\* the state after a throttle()
Throttled(w) ==
    /\ SetWorld(w)
    /\ lastCall' = ThrottleRecord(w)

\* line 1139: await throttle()
FollowListThrottle ==
    /\ pc = "throttle"
    /\ loop.op = "safelyFollowUserList"
    /\ now < MaxListClock
    /\ \E e \in ThrottleEnv : Throttled(throttle(World, e))
    /\ pc' = "follow"
    /\ UNCHANGED <<options, loop, lastQuery, dbHist, cursorVars>>

\* a loop that ends once `limit` accounts have been taken
FollowListUser_limited ==
    /\ pc = "follow"
    /\ loop.op = "safelyFollowUserList"
    /\ now < MaxListClock
    /\ \E e \in Env :
          Finish2(loop.list[loop.next],
                  CatchFailure(followUserRespectingRestrictions(World, loop.list[loop.next],
                                                                loop.skipPrivate, e)), e)
    /\ loop' = [loop EXCEPT !.next = @ + 1]
    /\ pc' = IF loop.next + 1 > Len(loop.list) \/ (loop.limit # Null /\ loop.next >= loop.limit)
             THEN "ready" ELSE "throttle"
    /\ UNCHANGED <<options, lastQuery, dbHist, cursorVars>>

\* lines 1141-1147: the try / catch around the follow, and the step to the next account
FollowListUser ==
    /\ pc = "follow"
    /\ loop.op = "safelyFollowUserList"
    /\ now < MaxListClock
    /\ \E e \in Env :
          Finish2(loop.list[loop.next],
                  CatchFailure(followUserRespectingRestrictions(World, loop.list[loop.next],
                                                                loop.skipPrivate, e)), e)
    /\ loop' = [loop EXCEPT !.next = @ + 1]
    /\ pc' = IF loop.next + 1 > Len(loop.list) THEN "ready" ELSE "throttle"
    /\ UNCHANGED <<options, lastQuery, dbHist, cursorVars>>

NextFollowList ==
    \/ \E users \in UserLists, skipPrivate \in BOOLEAN, limit \in {Null, 1} :
          SafelyFollowUserList(users, skipPrivate, limit)
    \/ FollowListThrottle
    \/ FollowListUser

SpecFollowList == InitFollowList /\ [][NextFollowList]_vars

\* C39: safelyFollowUserList goes through its list whatever `limit` is: each account
\* gets a throttle() and then one followUserRespectingRestrictions, in list order, and
\* the call ends only behind the last account, whatever the earlier accounts ended with
C39_FollowListIgnoresLimit ==
    /\ [][(loop.op = "safelyFollowUserList" /\ pc = "throttle" /\ pc' # pc) =>
             /\ lastCall'.op = "throttle"
             /\ pc' = "follow"
             /\ loop' = loop]_vars
    /\ [][(loop.op = "safelyFollowUserList" /\ pc = "follow" /\ pc' # pc) =>
             /\ lastCall.op = "throttle"
             /\ lastCall'.op = "followUserRespectingRestrictions"
             /\ lastCall'.user = loop.list[loop.next]
             /\ loop' = [loop EXCEPT !.next = @ + 1]
             /\ pc' = IF loop.next < Len(loop.list) THEN "throttle" ELSE "ready"]_vars
    /\ [](loop.op = "safelyFollowUserList" =>
             /\ pc \in {"throttle", "follow"} => loop.next <= Len(loop.list)
             /\ pc = "ready" => loop.next = Len(loop.list) + 1)

\* with limit 1, the second account of the list was attempted after the first had failed
C39_Witness ==
    /\ loop.op = "safelyFollowUserList"
    /\ loop.limit = 1
    /\ Len(loop.list) = 2
    /\ pc = "ready"
    /\ lastCall.op = "followUserRespectingRestrictions"
    /\ lastCall.user = loop.list[2]
    /\ \E k \in 1..Len(prevFollowedUsers) :
          prevFollowedUsers[k].username = loop.list[1] /\ prevFollowedUsers[k].failed

\* C32: when gotoWithRetry runs out of retries for a candidate of a batch loop, the
\* error leaves the loop: the list operation has ended with it and goes on to no
\* further candidate
C32_ExhaustedRetriesUnwind ==
    (loop.op = "safelyFollowUserList" /\ lastCall.err = RetriesExhausted) =>
        /\ loop.threw
        /\ pc = "ready"

\* the follow and unfollow clicks of the `unit` ticks that end with click k
ClicksInWindow(k, unit) ==
    Len(SelectSeq(clickLog, LAMBDA c : c.time <= clickLog[k].time /\ clickLog[k].time - c.time < unit))

\* C14: no follow, unfollow or like reaches an account listed in excludeUsers
C14_ExcludedNeverTouched ==
    \A k \in 1..Len(clickLog) : clickLog[k].user \notin options.excludeUsers

\* C4 (as stated): with dryRun disabled, no sliding hour holds more follow and unfollow
\* actions than maxFollowsPerHour, and no sliding day more than maxFollowsPerDay
C4_SlidingWindowQuota ==
    ~options.dryRun =>
        \A k \in 1..Len(clickLog) :
            /\ ClicksInWindow(k, hourMs) <= options.maxFollowsPerHour
            /\ ClicksInWindow(k, dayMs) <= options.maxFollowsPerDay

\* C5 (as stated): when throttle() returns, the counts of the last hour and the last day
\* are below their quotas
C5_ThrottleReturnsBelowQuota ==
    lastCall.op = "throttle" =>
        /\ getNumFollowedUsersThisTimeUnit(World, hourMs) < options.maxFollowsPerHour
        /\ getNumFollowedUsersThisTimeUnit(World, dayMs) < options.maxFollowsPerDay
        /\ getNumLikesThisTimeUnit(World, dayMs) < options.maxLikesPerDay

\* the count a check of throttle() saw, from the ledger and the time of the check
CountAt(check, at) ==
    LET w == [World EXCEPT !.t = at]
    IN CASE check = "day" -> getNumFollowedUsersThisTimeUnit(w, dayMs)
         [] check = "hour" -> getNumFollowedUsersThisTimeUnit(w, hourMs)
         [] check = "likes" -> getNumLikesThisTimeUnit(w, dayMs)

QuotaOf(check) ==
    CASE check = "day" -> options.maxFollowsPerDay
      [] check = "hour" -> options.maxFollowsPerHour
      [] check = "likes" -> options.maxLikesPerDay

\* C6: each of the three checks of throttle() sleeps exactly when its window count has
\* reached its quota
C6_SleepsIffQuotaReached ==
    lastCall.op = "throttle" =>
        /\ Len(lastCall.trace) = 3
        /\ \A k \in 1..3 :
              LET c == lastCall.trace[k]
              IN c.slept <=> (CountAt(c.check, c.at) >= QuotaOf(c.check))

\* one throttle() with a count equal to the quota and a count one below the quota
C6_Witness ==
    /\ lastCall.op = "throttle"
    /\ ~options.dryRun
    /\ \E k \in 1..Len(lastCall.trace) :
          LET c == lastCall.trace[k]
          IN c.slept /\ CountAt(c.check, c.at) = QuotaOf(c.check)
    /\ \E k \in 1..Len(lastCall.trace) :
          LET c == lastCall.trace[k]
          IN ~c.slept /\ CountAt(c.check, c.at) = QuotaOf(c.check) - 1

----------------------------------------------------------------------------
(* SpecUnfollowList: one call of safelyUnfollowUserList, one candidate at a time *)

\* twenty accounts that are all followed
Candidates ==
    <<"u01", "u02", "u03", "u04", "u05", "u06", "u07", "u08", "u09", "u10",
      "u11", "u12", "u13", "u14", "u15", "u16", "u17", "u18", "u19", "u20">>

CandidateSet == {Candidates[k] : k \in 1..Len(Candidates)}

InitUnfollowList ==
    /\ IdleCursor
    /\ prevFollowedUsers = <<>>
    /\ prevUnfollowedUsers = <<>>
    /\ prevLikedPhotos = <<>>
    /\ followedDb = AbsentFile
    /\ unfollowedDb = AbsentFile
    /\ likedPhotosDb = AbsentFile
    /\ now = 0
    /\ pc = "ready"
    /\ lastQuery = NoQuery
    /\ dbHist = NewHist(TRUE)
    /\ \/ /\ rel \in [Users -> Controls]
          /\ options \in {[DefaultOptions EXCEPT !.dryRun = d] : d \in BOOLEAN}
       \/ /\ rel \in {[u \in CandidateSet |-> "Following"],
                      [u \in CandidateSet |-> IF u \in {"u03", "u07"} THEN "Follow" ELSE "Following"]}
          /\ options = [DefaultOptions EXCEPT !.dryRun = FALSE]
    /\ url = ""
    /\ userDataCache = [u \in DOMAIN rel |-> NoData]
    /\ cookies = TRUE
    /\ clickLog = <<>>
    /\ lastCall = NoCall
    /\ loop = NoLoop

\* the calls: a short list with no limit (0) or a limit, or the twenty accounts with limit 5,
\* or with limit 12 when two of them are not followed any more
\* on a remote where every unfollow succeeds
UnfollowCalls ==
    IF DOMAIN rel = Users
    THEN [list : UserLists, limit : 0..MaxLimit, remote : {"any"}]
    ELSE IF rel["u03"] = "Following"
         THEN {[list |-> Candidates, limit |-> 5, remote |-> "succeeding"]}
         ELSE {[list |-> Candidates, limit |-> 12, remote |-> "succeeding12"]}

\* the executor's answers for one candidate
EnvFor(remote) ==
    IF remote \in {"succeeding", "succeeding12"}
    THEN {[EnvBase EXCEPT !.after = "Follow", !.data = "page", !.profile = Profile(10, 10, FALSE, TRUE)]}
    ELSE Answers

\* the answers of condition(username)
ConditionsFor(remote) == IF remote \in {"succeeding", "succeeding12"} THEN {TRUE} ELSE BOOLEAN

\* a check that lets the count pass the limit by one
LimitReached_after(j, limit) == limit # 0 /\ j > limit

\* line 1119: limit && j >= limit
LimitReached(j, limit) == limit # 0 /\ j >= limit

\* the outcome of the try block for one candidate: caught tells that it threw,
\* returned that the call returned at the limit
Caught(w, l) == [w |-> w, l |-> l, caught |-> TRUE, returned |-> FALSE]

\* lines 1116-1124: i += 1, the return at the limit, else throttle()
CandidateProcessed(w, l, j, e) ==
    IF LimitReached(j, l.limit)
    THEN [w |-> w, l |-> [l EXCEPT !.i = @ + 1, !.j = j, !.ret = j], caught |-> FALSE, returned |-> TRUE]
    ELSE [w |-> throttle(w, e), l |-> [l EXCEPT !.i = @ + 1, !.j = j], caught |-> FALSE, returned |-> FALSE]

\* lines 1108-1111: the break of ten minutes, its deviation of 10% below a tick
TakeBreak(w) == Stepped(sleep(w, 1, 1), "break")

\* a loop that takes the break after every tenth candidate processed
Unfollowed_breakOnProcessed(ru, l, e) ==
    IF ru.threw THEN Caught(ru.w, l)
    ELSE IF ru.res.noActionTaken
         THEN CandidateProcessed(IF (l.i + 1) % 10 = 0 THEN TakeBreak(ru.w) ELSE ru.w, l, l.j, e)
    ELSE CandidateProcessed(IF (l.i + 1) % 10 = 0 THEN TakeBreak(ru.w) ELSE ru.w, l, l.j + 1, e)

\* lines 1100-1113, after unfollowUser
Unfollowed(ru, l, e) ==
    IF ru.threw THEN Caught(ru.w, l)
    ELSE IF ru.res.noActionTaken THEN CandidateProcessed(ru.w, l, l.j, e)
    ELSE CandidateProcessed(IF (l.j + 1) % 10 = 0 THEN TakeBreak(ru.w) ELSE ru.w, l, l.j + 1, e)

\* a loop that counts the account not found as unfollowed
OnCandidatePage_counted(r1, username, l, e) ==
    IF r1.threw THEN Caught(r1.w, l)
    ELSE IF r1.ret = "false"
         THEN CandidateProcessed(
                  addPrevUnfollowedUserW(r1.w, FollowedUser(username, r1.w.t, FALSE, TRUE), e), l, l.j + 1, e)
         ELSE Unfollowed(unfollowUser(r1.w, username, e), l, e)

\* lines 1093-1113, after navigateToUser
OnCandidatePage(r1, username, l, e) ==
    IF r1.threw THEN Caught(r1.w, l)
    ELSE IF r1.ret = "false"
         THEN CandidateProcessed(
                  addPrevUnfollowedUserW(r1.w, FollowedUser(username, r1.w.t, FALSE, TRUE), e), l, l.j, e)
         ELSE Unfollowed(unfollowUser(r1.w, username, e), l, e)

\* lines 1091-1127: the try block for one candidate
UnfollowCandidate(w, username, l, e) ==
    OnCandidatePage(navigateToUser(Called(w, "tryUnfollow"), username, e), username, l, e)

\* line 1078: the call, up to the first candidate
SafelyUnfollowUserList(call) ==
    /\ pc = "ready"
    /\ loop.op = "none"
    /\ loop' = [NoLoop EXCEPT !.op = "safelyUnfollowUserList", !.list = call.list,
                              !.limit = call.limit, !.remote = call.remote,
                              !.ret = IF call.list = <<>> THEN 0 ELSE Null]
    /\ pc' = IF call.list = <<>> THEN "ready" ELSE "unfollow"
    /\ UNCHANGED <<ledgerVars, fileVars, now, lastQuery, dbHist, cursorVars,
                   options, rel, url, userDataCache, cookies, clickLog, lastCall>>

\* the candidate skipped by condition(username)
Skipped(l) == [w |-> World, l |-> l, caught |-> FALSE, returned |-> FALSE]

\* the state after one candidate: the call has returned at the limit or after the
\* last candidate, or goes on
AfterCandidate(s, username, e) ==
    /\ SetWorld(s.w)
    /\ loop' = IF ~s.returned /\ s.l.next > Len(s.l.list) THEN [s.l EXCEPT !.ret = s.l.j] ELSE s.l
    /\ pc' = IF s.returned \/ s.l.next > Len(s.l.list) THEN "ready" ELSE "unfollow"
    /\ lastCall' = [NoCall EXCEPT !.op = "unfollowCandidate", !.user = username,
                                  !.threw = s.caught,
                                  !.clicks = Len(s.w.clicks) - Len(clickLog),
                                  !.writes = s.w.writes, !.steps = s.w.steps, !.calls = s.w.calls,
                                  !.control = rel[username],
                                  !.nav = IF s.w.navs > 0 THEN e.nav ELSE "none"]

\* lines 1084-1132: the next candidate of the source; the return at the limit, or after
\* the last candidate
UnfollowListUser ==
    /\ pc = "unfollow"
    /\ loop.op = "safelyUnfollowUserList"
    /\ now < MaxListClock
    /\ \E e \in EnvFor(loop.remote), condition \in ConditionsFor(loop.remote) :
          AfterCandidate(IF condition
                         THEN UnfollowCandidate(World, loop.list[loop.next], [loop EXCEPT !.next = @ + 1], e)
                         ELSE Skipped([loop EXCEPT !.next = @ + 1]),
                         loop.list[loop.next], e)
    /\ UNCHANGED <<options, lastQuery, dbHist, cursorVars>>

NextUnfollowList ==
    \/ \E call \in UnfollowCalls : SafelyUnfollowUserList(call)
    \/ UnfollowListUser

SpecUnfollowList == InitUnfollowList /\ [][NextUnfollowList]_vars

UnfollowClicks == Len(SelectSeq(clickLog, LAMBDA c : c.kind = "unfollow"))

\* C9: safelyUnfollowUserList with a positive limit goes on only while the count of actual
\* unfollows is below the limit, then returns the limit and pulls no further candidate; at
\* the end of the source it returns the count reached; with limit 5 and twenty followed
\* accounts whose unfollows all succeed it unfollows exactly 5
C9_StopsAtLimit ==
    (loop.op = "safelyUnfollowUserList" /\ loop.limit > 0) =>
        /\ loop.j <= loop.limit
        /\ pc = "unfollow" => loop.j < loop.limit /\ loop.next <= Len(loop.list)
        /\ pc = "ready" =>
              /\ loop.ret = loop.j
              /\ loop.j = loop.limit \/ loop.next > Len(loop.list)
        /\ (pc = "ready" /\ loop.remote = "succeeding") =>
              /\ loop.ret = 5
              /\ loop.next = 6
              /\ UnfollowClicks = 5

\* the run over the twenty accounts has returned
C9_Witness ==
    /\ loop.op = "safelyUnfollowUserList"
    /\ pc = "ready"
    /\ loop.remote = "succeeding"
    /\ Len(loop.list) = 20
    /\ loop.limit = 5
    /\ loop.ret = 5
    /\ UnfollowClicks = 5

\* the step of safelyUnfollowUserList over one candidate
CandidateStepTaken ==
    /\ loop.op = "safelyUnfollowUserList"
    /\ pc = "unfollow"
    /\ loop'.next = loop.next + 1

\* C33: a candidate of safelyUnfollowUserList whose page answers 404 gets one unfollowed
\* record with noActionTaken, the other records staying as they were; it counts as
\* processed and not as unfollowed, raises no error, and unfollowUser is not called for it
C33_NotFoundRecordedAsNoOp ==
    [][(CandidateStepTaken /\ lastCall'.nav = "404") =>
          /\ ~lastCall'.threw
          /\ \E r \in RecordsFor(prevUnfollowedUsers', lastCall'.user) :
                /\ r.noActionTaken
                /\ UpsertOnly(prevUnfollowedUsers, prevUnfollowedUsers', r)
          /\ lastCall'.writes = 1
          /\ prevFollowedUsers' = prevFollowedUsers
          /\ loop'.i = loop.i + 1
          /\ loop'.j = loop.j
          /\ "unfollowUser" \notin Range(lastCall'.calls)
          /\ lastCall'.clicks = 0]_vars

\* the second candidate of a list was not found, after a first that was unfollowed
C33_Witness ==
    /\ lastCall.op = "unfollowCandidate"
    /\ lastCall.nav = "404"
    /\ loop.i = 2
    /\ loop.j = 1
    /\ Len(prevUnfollowedUsers) = 2
    /\ ~prevUnfollowedUsers[1].noActionTaken
    /\ prevUnfollowedUsers[2].noActionTaken

\* C34: safelyUnfollowUserList takes its ten-minute break in a candidate's step exactly
\* when that step brings the count of actual unfollows to a positive multiple of 10;
\* the count advances by one, and only for a candidate that showed the unfollow control
\* and whose unfollowUser raised nothing: not for an account not found, a no-op or a
\* failed unfollow
C34_BreakEveryTenUnfollows ==
    [][CandidateStepTaken =>
          /\ "break" \in Range(lastCall'.steps) <=> (loop'.j = loop.j + 1 /\ loop'.j % 10 = 0)
          /\ Len(SelectSeq(lastCall'.steps, LAMBDA x : x = "break")) <= 1
          /\ ("break" \in Range(lastCall'.steps) /\ ~options.dryRun) => now' >= now + 1
          /\ loop'.j \in {loop.j, loop.j + 1}
          /\ loop'.j = loop.j + 1 =>
                /\ ~lastCall'.threw
                /\ lastCall'.nav # "404"
                /\ lastCall'.control = "Following"
                /\ "unfollowUser" \in Range(lastCall'.calls)
                /\ options.dryRun \/ (lastCall'.clicks = 1 /\ rel'[lastCall'.user] = "Follow")]_vars

\* the break was taken at the tenth unfollow, which the twelfth candidate brought
C34_Witness ==
    /\ lastCall.op = "unfollowCandidate"
    /\ "break" \in Range(lastCall.steps)
    /\ loop.j = 10
    /\ loop.i = 12

\* C13: with dryRun enabled no follow, unfollow or like click reaches the remote and the
\* followed, unfollowed and liked collections stay as they were, here empty
C13_DryRunChangesNothing ==
    options.dryRun =>
        /\ clickLog = <<>>
        /\ prevFollowedUsers = <<>>
        /\ prevUnfollowedUsers = <<>>
        /\ prevLikedPhotos = <<>>

----------------------------------------------------------------------------
(* SpecBatch: one call of processUserFollowers or of safelyFollowUserList, the
   accounts of the batch taken one at a time *)

\* the account whose followers are processed
Target == "carol"

\* the like click on an image of username
LikeClick(w, username) ==
    [w EXCEPT !.clicks = Append(@, [kind |-> "like", user |-> username, time |-> w.t]),
              !.steps = Append(@, "click")]

\* lines 335-337 and db.ts 64-67
onImageLiked(w, username, href, e) ==
    [w EXCEPT !.L = Append(@, LikedPhoto(username, href, w.t)),
              !.files = trySaveDbFiles(w.F, w.U, Append(w.L, LikedPhoto(username, href, w.t)),
                                       e.failAt, w.files),
              !.writes = @ + 1, !.steps = Append(@, "write")]

\* lines 915-917: likeImage() unless dryRun
likeImage(w, username, e) ==
    IF options.dryRun THEN w ELSE onImageLiked(LikeClick(w, username), username, "p1", e)

\* lines 811-936 for a page of at most one image: e.like tells what the page shows
likeCurrentUserImagesPageCode(w, username, e) ==
    CASE e.like = "noImages" -> Ok(w, "void")
      [] e.like = "dialogNotFound" -> Throw(w, "Dialog not found")
      [] e.like = "closeNotFound" -> Throw(likeImage(w, username, e), "Close button not found (aria-label)")
      [] OTHER -> Ok(likeImage(w, username, e), "void")

\* lines 955, after navigateToUserAndGetData
LikeOnPage(r, username, e) ==
    IF r.threw THEN r ELSE likeCurrentUserImagesPageCode(r.w, username, e)

\* lines 941-956, called with a username and valid bounds
likeUserImages(w, username, e) ==
    LikeOnPage(navigateToUserAndGetData(w, username, e), username, e)

\* the outcome of the loop body for one follower
FollowerOutcome(w, l, err, caught, returned) ==
    [w |-> w, l |-> l, err |-> err, caught |-> caught, returned |-> returned]

\* lines 1044-1048
CaughtFollower(r, l) == FollowerOutcome(r.w, l, r.err, TRUE, FALSE)

\* lines 1040-1043, after likeUserImages
Liked(r, l) ==
    IF r.threw THEN CaughtFollower(CatchFailure(r), l) ELSE FollowerOutcome(r.w, l, "", FALSE, FALSE)

\* lines 1036-1043, after followUserRespectingRestrictions; l.limit is maxFollowsPerUser
LikeFollower(r, l, follower, didActuallyFollow, e) ==
    IF l.enableLikeImages /\ ~(l.limit > 0 /\ ~didActuallyFollow)
    THEN Liked(likeUserImages(r.w, follower, e), [l EXCEPT !.j = @ + (IF didActuallyFollow THEN 1 ELSE 0)])
    ELSE FollowerOutcome(r.w, [l EXCEPT !.j = @ + (IF didActuallyFollow THEN 1 ELSE 0)], "", FALSE, FALSE)

\* a loop that counts a follower only when a followed record of it exists
Followed_countsRecords(r, l, follower, e) ==
    IF r.threw THEN CaughtFollower(CatchFailure(r), l)
    ELSE LikeFollower(r, l, follower, r.ret = "true" /\ HasKey(r.w.F, follower), e)

\* lines 1035-1036, after followUserRespectingRestrictions
Followed(r, l, follower, e) ==
    IF r.threw THEN CaughtFollower(CatchFailure(r), l)
    ELSE LikeFollower(r, l, follower, r.ret = "true", e)

\* lines 1030-1048: the try / catch for one follower
ProcessFollowerBody(w, l, follower, e) ==
    IF l.limit > 0 /\ l.j >= l.limit THEN FollowerOutcome(w, l, "", FALSE, TRUE)
    ELSE Followed(IF l.limit > 0
                  THEN followUserRespectingRestrictions(w, follower, l.skipPrivate, e)
                  ELSE Ok(w, "false"),
                  l, follower, e)

\* the followers of the target: one batch of the generator
FollowerLists == UserLists

InitBatch ==
    /\ IdleCursor
    /\ prevFollowedUsers = <<>>
    /\ prevUnfollowedUsers = <<>>
    /\ prevLikedPhotos = <<>>
    /\ followedDb = AbsentFile
    /\ unfollowedDb = AbsentFile
    /\ likedPhotosDb = AbsentFile
    /\ now = 0
    /\ pc = "ready"
    /\ lastQuery = NoQuery
    /\ dbHist = NewHist(TRUE)
    /\ options \in {[DefaultOptions EXCEPT !.dryRun = d] : d \in BOOLEAN}
    /\ rel \in {[u \in Users \cup {Target} |-> IF u = "alice" THEN a ELSE IF u = "bob" THEN b ELSE "Follow"] :
                   a \in {"Follow", "None"}, b \in {"Follow", "Following"}}
    /\ url = ""
    /\ userDataCache = [u \in Users \cup {Target} |-> NoData]
    /\ cookies = TRUE
    /\ clickLog = <<>>
    /\ lastCall = NoCall
    /\ loop = NoLoop

\* what the pages of a follower answer
LikeAnswers(E) ==
    {[e EXCEPT !.like = k] : e \in E, k \in {"noImages", "dialogNotFound", "closeNotFound", "liked"}}

\* lines 1014-1021, after navigateToUserAndGetData(username): an error leaves the call,
\* no user data returns, and else the followers are taken one by one
TargetLoaded(r, followers, maxFollowsPerUser, enableLikeImages) ==
    /\ SetWorld(r.w)
    /\ loop' = [NoLoop EXCEPT !.op = "processUserFollowers", !.list = followers,
                              !.limit = maxFollowsPerUser, !.enableLikeImages = enableLikeImages,
                              !.threw = r.threw]
    /\ pc' = IF r.threw \/ ~r.data.known \/ followers = <<>> THEN "ready" ELSE "follower"
    /\ lastCall' = [CallRecord("processUserFollowers", Target, r) EXCEPT !.steps = r.w.steps]

\* lines 1006-1021: the call, up to the first follower
ProcessUserFollowers(followers, maxFollowsPerUser, enableLikeImages) ==
    /\ pc = "ready"
    /\ loop.op = "none"
    /\ \E e \in NavFails \cup {[EnvBase EXCEPT !.data = "page", !.profile = Profile(10, 10, FALSE, TRUE)]} :
          TargetLoaded(navigateToUserAndGetData(throttle(World, e), Target, e),
                       followers, maxFollowsPerUser, enableLikeImages)
    /\ UNCHANGED <<options, lastQuery, dbHist, cursorVars>>

\* the state after one follower: the call has returned at the limit or after the
\* last follower, or goes on
AfterFollower(s, follower) ==
    /\ SetWorld(s.w)
    /\ loop' = s.l
    /\ pc' = IF s.returned \/ s.l.next > Len(s.l.list)
             THEN (IF s.l.outer THEN "sourceDone" ELSE "ready")
             ELSE "follower"
    /\ lastCall' = [NoCall EXCEPT !.op = "processFollower", !.user = follower,
                                  !.err = s.err, !.caught = s.caught,
                                  !.ret = IF s.returned THEN "return" ELSE "",
                                  !.navs = s.w.navs, !.writes = s.w.writes,
                                  !.clicks = Len(s.w.clicks) - Len(clickLog),
                                  !.steps = s.w.steps, !.calls = s.w.calls,
                                  !.control = rel[follower],
                                  !.hadRecord = HasKey(prevFollowedUsers, follower)]

\* lines 1027-1049: throttle() and the try / catch for the next follower of the batch
ProcessFollower ==
    /\ pc = "follower"
    /\ loop.op = "processUserFollowers"
    /\ \E e \in LikeAnswers(Answers) :
          AfterFollower(ProcessFollowerBody(throttle(World, e), [loop EXCEPT !.next = @ + 1],
                                            loop.list[loop.next], e),
                        loop.list[loop.next])
    /\ UNCHANGED <<options, lastQuery, dbHist, cursorVars>>

NextBatch ==
    \/ \E followers \in FollowerLists, maxFollowsPerUser \in 0..1, enableLikeImages \in BOOLEAN :
          ProcessUserFollowers(followers, maxFollowsPerUser, enableLikeImages)
    \/ ProcessFollower
    \/ \E users \in UserLists, skipPrivate \in BOOLEAN, limit \in {Null, 1} :
          SafelyFollowUserList(users, skipPrivate, limit)
    \/ FollowListThrottle
    \/ FollowListUser

SpecBatch == InitBatch /\ [][NextBatch]_vars

\* the last step was the try / catch around one candidate of a batch
CandidateStep ==
    \/ loop.op = "processUserFollowers" /\ lastCall.op = "processFollower"
    \/ loop.op = "safelyFollowUserList" /\ lastCall.op = "followUserRespectingRestrictions"

\* C11 (as stated): the action-blocked error raised for a follower leaves
\* processUserFollowers, which ends with it and takes no further follower
C11_BlockedErrorPropagates ==
    (loop.op = "processUserFollowers" /\ lastCall.op = "processFollower"
     /\ lastCall.err = BlockedError)
    => /\ loop.threw
       /\ ~lastCall.caught
       /\ pc = "ready"

\* C38: when followUser finds the unfollow control instead of the follow control on a
\* follower's page it returns without a follow click and without a followed record;
\* followUserRespectingRestrictions goes on to its throttle() and returns true, and
\* processUserFollowers counts the follower toward maxFollowsPerUser
C38_AlreadyFollowedCounts ==
    [][(/\ pc = "follower"
        /\ loop.op = "processUserFollowers"
        /\ loop'.next = loop.next + 1
        /\ lastCall'.control = "Following"
        /\ "followUser" \in Range(lastCall'.calls)
        /\ lastCall'.err \notin NavigationErrors) =>
          /\ "throttle" \in Range(lastCall'.calls)
          /\ loop'.j = loop.j + 1
          /\ \A k \in (Len(clickLog) + 1)..Len(clickLog') : clickLog'[k].kind # "follow"
          /\ prevFollowedUsers' = prevFollowedUsers
          /\ ~HasKey(prevFollowedUsers', lastCall'.user)]_vars

\* bob, followed on the remote and without a record, was counted as the one follow of
\* the source
C38_Witness ==
    /\ loop.op = "processUserFollowers"
    /\ lastCall.op = "processFollower"
    /\ lastCall.user = "bob"
    /\ lastCall.control = "Following"
    /\ "followUser" \in Range(lastCall.calls)
    /\ loop.j = 1
    /\ loop.limit = 1
    /\ prevFollowedUsers = <<>>
    /\ ~options.dryRun

\* the errors of one candidate that are no action block
CandidateErrors ==
    {"Follow button not found", "Button did not change state", "User not found",
     "Dialog not found", "Close button not found (aria-label)"}

\* the last steps of a call
LastSteps(steps, n) == SubSeq(steps, Len(steps) - n + 1, Len(steps))

\* C12: in processUserFollowers and safelyFollowUserList an error of one candidate
\* (follow button not found, unconfirmed follow, user not found, a failed like) is
\* caught in the loop, the catch ends with its backoff sleep, the call does not end
\* with the error and goes on to the next candidate while there is one
C12_CandidateErrorCaught ==
    (CandidateStep /\ lastCall.err \in CandidateErrors)
    => /\ lastCall.caught
       /\ ~loop.threw
       /\ Len(lastCall.steps) >= 3
       /\ LastSteps(lastCall.steps, 3) = <<"catch", "screenshot", "backoff">>
       /\ pc = "ready" <=> loop.next > Len(loop.list)

\* each kind of error has been caught with a further candidate to go
C12_Witness ==
    /\ CandidateStep
    /\ lastCall.err \in CandidateErrors
    /\ lastCall.caught
    /\ loop.next <= Len(loop.list)
    /\ pc \in {"follower", "throttle"}

----------------------------------------------------------------------------
(* SpecGoto: one call of gotoWithRetry, one request at a time *)

\* the response statuses of a request; NoResponse is page.goto resolving to null
NoResponse == 0
Statuses == {NoResponse, 200, 404, 429, 500, 560}

\* line 396: [560, 429].includes(status)
Retryable(status) == status \in {560, 429}

\* a wait that does not grow with the attempt
RetryWait_fixed(attempt) == halfHourMs

\* line 402: (attempt + 1) * 30 * 60 * 1000
RetryWait(attempt) == (attempt + 1) * halfHourMs

InitGoto ==
    /\ IdleCursor
    /\ prevFollowedUsers = <<>>
    /\ prevUnfollowedUsers = <<>>
    /\ prevLikedPhotos = <<>>
    /\ followedDb = AbsentFile
    /\ unfollowedDb = AbsentFile
    /\ likedPhotosDb = AbsentFile
    /\ now = 0
    /\ pc = "ready"
    /\ lastQuery = NoQuery
    /\ dbHist = NewHist(TRUE)
    /\ options \in {[DefaultOptions EXCEPT !.dryRun = d] : d \in BOOLEAN}
    /\ rel = [u \in Users |-> "Follow"]
    /\ url = ""
    /\ userDataCache = [u \in Users |-> NoData]
    /\ cookies = TRUE
    /\ clickLog = <<>>
    /\ lastCall = NoCall
    /\ loop = NoLoop

\* line 382: the call, up to the first request
GotoWithRetry(username) ==
    /\ pc = "ready"
    /\ loop.op = "none"
    /\ loop' = [NoLoop EXCEPT !.op = "gotoWithRetry"]
    /\ lastCall' = [NoCall EXCEPT !.op = "gotoWithRetry", !.user = username]
    /\ pc' = "goto"
    /\ UNCHANGED <<ledgerVars, fileVars, now, lastQuery, dbHist, cursorVars,
                   options, rel, url, userDataCache, cookies, clickLog>>

\* the call has ended: with the status returned, or with an error
GotoEnded(status, wait, threw, err) ==
    /\ loop' = [loop EXCEPT !.ret = IF threw THEN Null ELSE status, !.threw = threw]
    /\ lastCall' = [lastCall EXCEPT !.threw = threw, !.err = err,
                                    !.trace = Append(@, [status |-> status, at |-> now, wait |-> wait])]
    /\ pc' = "ready"
    /\ now' = now

\* lines 401-402: the sleep before the next request, loop.i being the attempt
GotoRetried(status, wait, dev) ==
    /\ loop' = [loop EXCEPT !.i = @ + 1]
    /\ lastCall' = [lastCall EXCEPT !.trace = Append(@, [status |-> status, at |-> now, wait |-> wait])]
    /\ pc' = "goto"
    /\ now' = sleep([t |-> now], wait, dev).t

\* lines 385-402: one request and what follows its response
GotoResponse(status, dev) ==
    /\ pc = "goto"
    /\ loop.op = "gotoWithRetry"
    /\ url' = lastCall.user
    /\ IF status = NoResponse THEN GotoEnded(status, 0, TRUE, "Navigation did not return a response")
       ELSE IF ~Retryable(status) THEN GotoEnded(status, 0, FALSE, "")
       ELSE IF loop.i > maxAttempts THEN GotoEnded(status, 0, TRUE, RetriesExhausted)
       ELSE GotoRetried(status, RetryWait(loop.i), dev)
    /\ UNCHANGED <<ledgerVars, fileVars, lastQuery, dbHist, cursorVars,
                   options, rel, userDataCache, cookies, clickLog>>

NextGoto ==
    \/ \E u \in Users : GotoWithRetry(u)
    \/ \E status \in Statuses, dev \in {1, 2} : GotoResponse(status, dev)

\* every request is answered: page.goto resolves or the call has ended
SpecGoto == InitGoto /\ [][NextGoto]_vars /\ WF_vars(NextGoto)

\* the requests of the call so far
GotoTrace == lastCall.trace

\* C37: a gotoWithRetry call sends at most maxAttempts = 3 requests, and raises its
\* 'failed after 3 attempts' error after exactly three requests answered 429 or 560
C37_ThreeRequestsThenError ==
    lastCall.op = "gotoWithRetry" =>
        /\ Len(GotoTrace) <= maxAttempts
        /\ lastCall.err = RetriesExhausted =>
              /\ Len(GotoTrace) = maxAttempts
              /\ \A k \in 1..Len(GotoTrace) : Retryable(GotoTrace[k].status)

\* C21: gotoWithRetry sends a further request only after a 429 or 560; the wait asked
\* for before the n-th retry is n times 30 minutes, and, outside a dry run, between
\* that and twice that passes; any other status ends the call with that status; the
\* call sends at most maxAttempts + 2 requests, the last of them ending it with an
\* error if it is a 429 or 560 again; and every call ends
C21_GotoRetriesBounded ==
    /\ [](lastCall.op = "gotoWithRetry" =>
            /\ Len(GotoTrace) <= maxAttempts + 2
            /\ \A n \in 1..(Len(GotoTrace) - 1) :
                  /\ Retryable(GotoTrace[n].status)
                  /\ GotoTrace[n].wait = n * halfHourMs
                  /\ ~options.dryRun =>
                        /\ GotoTrace[n + 1].at - GotoTrace[n].at >= n * halfHourMs
                        /\ GotoTrace[n + 1].at - GotoTrace[n].at <= 2 * n * halfHourMs
            /\ pc = "goto" =>
                  /\ Len(GotoTrace) <= maxAttempts + 1
                  /\ \A n \in 1..Len(GotoTrace) : Retryable(GotoTrace[n].status)
            /\ pc = "ready" =>
                  /\ Len(GotoTrace) >= 1
                  /\ ~loop.threw => /\ loop.ret = GotoTrace[Len(GotoTrace)].status
                                    /\ loop.ret \notin {NoResponse, 429, 560}
                  /\ loop.threw => \/ GotoTrace[Len(GotoTrace)].status = NoResponse
                                   \/ /\ Retryable(GotoTrace[Len(GotoTrace)].status)
                                      /\ Len(GotoTrace) = maxAttempts + 2)
    /\ (pc = "goto" ~> pc = "ready")

\* a call that ended with the error after its last 560, four waits behind it
C21_Witness ==
    /\ lastCall.op = "gotoWithRetry"
    /\ pc = "ready"
    /\ loop.threw
    /\ Len(GotoTrace) = maxAttempts + 2
    /\ GotoTrace[maxAttempts + 2].status = 560
    /\ GotoTrace[maxAttempts + 1].wait = (maxAttempts + 1) * halfHourMs
    /\ ~options.dryRun

----------------------------------------------------------------------------
(* SpecFollowUsers: one call of followUsersFollowers (processUsersFollowers), the
   source accounts and their followers taken one at a time *)

\* the accounts whose followers are processed
SourceUsers == {"carol", "dave"}

SourceLists == {<<>>} \cup {<<u>> : u \in SourceUsers} \cup {uv \in SourceUsers \X SourceUsers : uv[1] # uv[2]}

\* lines 199-213 and 1055: the orders shuffleArray may give, cut to maxFollowsTotal
Sliced(users, maxFollowsTotal) ==
    {SubSeq(p, 1, Min2(Len(p), maxFollowsTotal)) :
        p \in {q \in SourceLists : Len(q) = Len(users) /\ \A k \in 1..Len(users) : \E m \in 1..Len(q) : q[m] = users[k]}}

\* line 1057
MaxFollowsPerUser(enableFollow, sliced, maxFollowsTotal) ==
    IF enableFollow /\ Len(sliced) > 0 THEN maxFollowsTotal \div Len(sliced) ELSE 0

InitFollowUsers ==
    /\ IdleCursor
    /\ prevFollowedUsers = <<>>
    /\ prevUnfollowedUsers = <<>>
    /\ prevLikedPhotos = <<>>
    /\ followedDb = AbsentFile
    /\ unfollowedDb = AbsentFile
    /\ likedPhotosDb = AbsentFile
    /\ now = 0
    /\ pc = "ready"
    /\ lastQuery = NoQuery
    /\ dbHist = NewHist(TRUE)
    /\ options \in {[DefaultOptions EXCEPT !.dryRun = d] : d \in BOOLEAN}
    /\ rel = [u \in Users \cup SourceUsers |-> "Follow"]
    /\ url = ""
    /\ userDataCache = [u \in Users \cup SourceUsers |-> NoData]
    /\ cookies = TRUE
    /\ clickLog = <<>>
    /\ lastCall = NoCall
    /\ loop = NoLoop

\* lines 1053-1064: the call, up to the first source account; with likeImagesMin and
\* likeImagesMax at their defaults 1 and 2
FollowUsersFollowers(usersToFollowFollowersOf, maxFollowsTotal, enableFollow, enableLikeImages) ==
    /\ pc = "ready"
    /\ loop.op = "none"
    /\ \E sliced \in Sliced(usersToFollowFollowersOf, maxFollowsTotal) :
          /\ loop' = [NoLoop EXCEPT !.op = "followUsersFollowers", !.sources = sliced,
                                    !.total = maxFollowsTotal, !.outer = TRUE,
                                    !.limit = MaxFollowsPerUser(enableFollow, sliced, maxFollowsTotal),
                                    !.enableLikeImages = enableLikeImages]
          /\ pc' = IF (MaxFollowsPerUser(enableFollow, sliced, maxFollowsTotal) = 0 /\ ~enableLikeImages)
                      \/ sliced = <<>>
                   THEN "ready" ELSE "source"
    /\ lastCall' = [NoCall EXCEPT !.op = "followUsersFollowers"]
    /\ UNCHANGED <<ledgerVars, fileVars, now, lastQuery, dbHist, cursorVars,
                   options, rel, url, userDataCache, cookies, clickLog>>

\* the loop record at the next source account
NextSource(l) == [l EXCEPT !.op = "followUsersFollowers", !.sources = Tail(@), !.list = <<>>, !.next = 1, !.j = 0]

\* lines 1014-1021 inside lines 1065-1074, after navigateToUserAndGetData(username): an
\* error is caught by the loop over the source accounts, which takes a screenshot, sleeps
\* a minute and goes on; no user data returns; else the followers are taken one by one
SourceLoaded(r, followers) ==
    /\ SetWorld(IF r.threw THEN takeScreenshot(r.w) ELSE r.w)
    /\ loop' = IF r.threw THEN NextSource(loop)
               ELSE [loop EXCEPT !.op = "processUserFollowers", !.list = followers, !.next = 1, !.j = 0]
    /\ pc' = IF r.threw THEN (IF Len(loop.sources) > 1 THEN "source" ELSE "ready")
             ELSE IF ~r.data.known \/ followers = <<>> THEN "sourceDone"
             ELSE "follower"
    /\ lastCall' = [CallRecord("processUserFollowers", Head(loop.sources), r) EXCEPT !.caught = r.threw]

\* lines 1065-1066 and 1006-1021: processUserFollowers for the next source account, up
\* to its first follower
ProcessSource ==
    /\ pc = "source"
    /\ loop.op = "followUsersFollowers"
    /\ \E followers \in FollowerLists,
          e \in NavFails \cup {[EnvBase EXCEPT !.data = "page", !.profile = Profile(10, 10, FALSE, TRUE)]} :
          SourceLoaded(navigateToUserAndGetData(throttle(World, e), Head(loop.sources), e), followers)
    /\ UNCHANGED <<options, lastQuery, dbHist, cursorVars>>

\* lines 1068-1069: processUserFollowers has returned; sleep(10 minutes) and throttle()
SourceDone ==
    /\ pc = "sourceDone"
    /\ loop.outer
    /\ \E e \in ThrottleEnv : SetWorld(throttle(sleep(World, ThrottleSleep, e.dev), e))
    /\ loop' = NextSource(loop)
    /\ pc' = IF Len(loop.sources) > 1 THEN "source" ELSE "ready"
    /\ lastCall' = [NoCall EXCEPT !.op = "sourceDone", !.user = Head(loop.sources)]
    /\ UNCHANGED <<options, lastQuery, dbHist, cursorVars>>

NextFollowUsers ==
    \/ \E users \in SourceLists, maxFollowsTotal \in 0..MaxFollowsTotal,
          enableFollow \in BOOLEAN, enableLikeImages \in BOOLEAN :
          FollowUsersFollowers(users, maxFollowsTotal, enableFollow, enableLikeImages)
    \/ ProcessSource
    \/ ProcessFollower
    \/ SourceDone

SpecFollowUsers == InitFollowUsers /\ [][NextFollowUsers]_vars

FollowClicks == Len(SelectSeq(clickLog, LAMBDA c : c.kind = "follow"))

\* C22 (as stated): during followUsersFollowers with dryRun disabled the follow clicks on
\* the remote never exceed maxFollowsTotal, and no follow is attempted for a source
\* account that has reached maxFollowsPerUser follows
C22_FollowsWithinTotal ==
    (loop.outer /\ ~options.dryRun) =>
        /\ FollowClicks <= loop.total
        /\ loop.j <= loop.limit
        /\ (lastCall.op = "processFollower" /\ lastCall.ret = "return") => lastCall.clicks = 0

----------------------------------------------------------------------------
(* SpecQuota: the two quota counts over a ledger of records of several ages *)

QuotaFollowed ==
    {<<>>}
    \cup {<<FollowedUser("alice", t, failed, FALSE)>> : t \in 0..MaxTime, failed \in BOOLEAN}
    \cup {<<FollowedUser("alice", 0, TRUE, FALSE), FollowedUser("bob", t, FALSE, FALSE)>> : t \in 0..MaxTime}

QuotaUnfollowed ==
    {<<>>}
    \cup {<<FollowedUser("bob", t, FALSE, noActionTaken)>> : t \in 0..MaxTime, noActionTaken \in BOOLEAN}
    \cup {<<FollowedUser("bob", 0, FALSE, TRUE), FollowedUser("alice", t, FALSE, FALSE)>> : t \in 0..MaxTime}

QuotaLiked == {<<>>} \cup {<<LikedPhoto("alice", "p1", t)>> : t \in 0..MaxTime}

\* a ledger in memory whose records were written at or before the present time
InitQuota ==
    /\ IdleCursor
    /\ IdleFlow
    /\ prevFollowedUsers \in QuotaFollowed
    /\ prevUnfollowedUsers \in QuotaUnfollowed
    /\ prevLikedPhotos \in QuotaLiked
    /\ followedDb = JsonFile(prevFollowedUsers)
    /\ unfollowedDb = JsonFile(prevUnfollowedUsers)
    /\ likedPhotosDb = JsonFile(prevLikedPhotos)
    /\ now = MaxTime
    /\ pc = "ready"
    /\ lastQuery = NoQuery
    /\ dbHist = NewHist(FALSE)

\* getNumFollowedUsersThisTimeUnit(timeUnit) and getNumLikesThisTimeUnit(timeUnit), the
\* two counts kept for inspection
QuotaQuery(timeUnit) ==
    /\ pc = "ready"
    /\ lastQuery' = [coll |-> "quota", timeUnit |-> timeUnit, at |-> now,
                     result |-> <<getNumFollowedUsersThisTimeUnit(World, timeUnit),
                                  getNumLikesThisTimeUnit(World, timeUnit)>>]
    /\ UNCHANGED <<ledgerVars, fileVars, now, pc, dbHist, NotLedger>>

NextQuota == \E timeUnit \in 0..(MaxTime + 1) : QuotaQuery(timeUnit)

SpecQuota == InitQuota /\ [][NextQuota]_vars

\* the records of arr younger than d at time t
Younger(arr, t, d) == {i \in 1..Len(arr) : t - arr[i].time < d}

\* C23: the combined count of a window is the number of followed records younger than
\* the window, failed ones included, plus the number of unfollowed records younger than
\* the window that carry no noActionTaken; the like count is the number of liked
\* records younger than the window; neither count depends on the other's collections
C23_QuotaCounts ==
    lastQuery.coll = "quota" =>
        /\ lastQuery.result[1] =
              Cardinality(Younger(prevFollowedUsers, lastQuery.at, lastQuery.timeUnit))
              + Cardinality({i \in Younger(prevUnfollowedUsers, lastQuery.at, lastQuery.timeUnit) :
                                ~prevUnfollowedUsers[i].noActionTaken})
        /\ lastQuery.result[2] = Cardinality(Younger(prevLikedPhotos, lastQuery.at, lastQuery.timeUnit))

\* a failed follow, an unfollow with noActionTaken and a like, all inside the window:
\* the combined count is 1 and the like count is 1
C23_Witness ==
    /\ lastQuery.coll = "quota"
    /\ lastQuery.timeUnit = 1
    /\ prevFollowedUsers = <<FollowedUser("alice", MaxTime, TRUE, FALSE)>>
    /\ prevUnfollowedUsers = <<FollowedUser("bob", MaxTime, FALSE, TRUE)>>
    /\ prevLikedPhotos = <<LikedPhoto("alice", "p1", MaxTime)>>
    /\ lastQuery.result = <<1, 1>>

----------------------------------------------------------------------------
(* SpecSave: the saves of the ledger one writeFile at a time. The workflow awaits its
   own upserts; the page code of likeUserImages calls instautoOnImageLiked without
   awaiting it, so the save of a like runs beside whatever comes next. *)

\* the ledger history with the saves in progress: by tells who asked for the save, next
\* is the file it writes next
SaveHist(saves) == [trail |-> "other", saveFailed |-> FALSE, failures |-> 0, saves |-> saves]

\* db.ts 25-27: the k-th writeFile of a save, which serialises the collection as it is
\* when the write is issued
WriteFileOf(k, files) ==
    CASE k = 1 -> [files EXCEPT !.followed = JsonFile(ObjectValues(prevFollowedUsers))]
      [] k = 2 -> [files EXCEPT !.unfollowed = JsonFile(ObjectValues(prevUnfollowedUsers))]
      [] OTHER -> [files EXCEPT !.liked = JsonFile(prevLikedPhotos)]

\* a sequence without its i-th element
Without(seq, i) == SubSeq(seq, 1, i - 1) \o SubSeq(seq, i + 1, Len(seq))

InitSave ==
    /\ IdleCursor
    /\ IdleFlow
    /\ prevFollowedUsers = <<>>
    /\ prevUnfollowedUsers = <<>>
    /\ prevLikedPhotos = <<>>
    /\ followedDb = AbsentFile
    /\ unfollowedDb = AbsentFile
    /\ likedPhotosDb = AbsentFile
    /\ now = 0
    /\ pc = "ready"
    /\ lastQuery = NoQuery
    /\ dbHist = SaveHist(<<>>)

\* index.ts 683-684, db.ts 86-88: await addPrevFollowedUser(entry), up to the first
\* writeFile; the workflow goes on when this save has ended
AwaitAddPrevFollowedUser(user) ==
    /\ pc = "ready"
    /\ ~HasKey(prevFollowedUsers, user.username)
    /\ prevFollowedUsers' = SetKey(prevFollowedUsers, user)
    /\ dbHist' = SaveHist(Append(dbHist.saves, [by |-> "workflow", next |-> 1]))
    /\ pc' = "saving"
    /\ UNCHANGED <<prevUnfollowedUsers, prevLikedPhotos, fileVars, now, lastQuery, NotLedger>>

\* index.ts 955: await page.evaluate(likeCurrentUserImagesPageCode, ...) begins
EvaluateLikeCode ==
    /\ pc = "ready"
    /\ Len(prevLikedPhotos) < MaxLikes
    /\ pc' = "evaluate"
    /\ UNCHANGED <<ledgerVars, fileVars, now, lastQuery, dbHist, NotLedger>>

\* index.ts 911 and 335-337, db.ts 64-66: window.instautoOnImageLiked(image.href), not
\* awaited by the page code: the like is pushed and its save begins
InstautoOnImageLiked(username) ==
    /\ pc = "evaluate"
    /\ Len(prevLikedPhotos) < MaxLikes
    /\ prevLikedPhotos' = Append(prevLikedPhotos, LikedPhoto(username, "p1", now))
    /\ dbHist' = SaveHist(Append(dbHist.saves, [by |-> "page", next |-> 1]))
    /\ UNCHANGED <<prevFollowedUsers, prevUnfollowedUsers, fileVars, now, pc, lastQuery, NotLedger>>

\* index.ts 919-936: the page code has closed its last image and page.evaluate returns
EvaluateReturns ==
    /\ pc = "evaluate"
    /\ pc' = "ready"
    /\ UNCHANGED <<ledgerVars, fileVars, now, lastQuery, dbHist, NotLedger>>

\* db.ts 25-27: the next writeFile of the i-th save in progress; after the third the
\* save has ended, and the workflow that awaited it goes on
WriteFile(i) ==
    /\ i \in 1..Len(dbHist.saves)
    /\ SetFiles(WriteFileOf(dbHist.saves[i].next, Files))
    /\ dbHist' = SaveHist(IF dbHist.saves[i].next = 3 THEN Without(dbHist.saves, i)
                          ELSE [dbHist.saves EXCEPT ![i].next = @ + 1])
    /\ pc' = IF dbHist.saves[i].next = 3 /\ dbHist.saves[i].by = "workflow" THEN "ready" ELSE pc
    /\ UNCHANGED <<ledgerVars, now, lastQuery, NotLedger>>

NextSave ==
    \/ \E u \in Users : AwaitAddPrevFollowedUser(FollowedUser(u, now, FALSE, FALSE))
    \/ EvaluateLikeCode
    \/ \E u \in Users : InstautoOnImageLiked(u)
    \/ EvaluateReturns
    \/ \E i \in 1..(MaxLikes + 1) : WriteFile(i)

SpecSave == InitSave /\ [][NextSave]_vars

\* C27 (as stated): at most one save is in progress at any time, so that no mutation and
\* no save begins before the three writes of the one before have ended
C27_OneSaveAtATime == Len(dbHist.saves) <= 1

\* C29: a followUserRespectingRestrictions call that clicked the follow control, whether
\* the follow ended confirmed or unconfirmed, has gone through the 30-second sleep and
\* then through throttle() before it returned or raised
C29_CooldownAfterEveryFollow ==
    (/\ lastCall.op = "followUserRespectingRestrictions"
     /\ lastCall.clicks > 0
     /\ ~lastCall.threw \/ lastCall.err = "Button did not change state") =>
        \E i \in 1..Len(lastCall.steps) :
            /\ lastCall.steps[i] = "sleep30s"
            /\ \E j \in 1..i : lastCall.steps[j] = "click"
            /\ "throttle" \in Range(lastCall.calls)

\* the step clicked the control of the given kind on u and wrote to the ledger after it
ClickedThenWrote(kind, u) ==
    /\ Len(clickLog') = Len(clickLog) + 1
    /\ clickLog'[Len(clickLog')].kind = kind
    /\ clickLog'[Len(clickLog')].user = u
    /\ lastCall'.user = u
    /\ \E i \in 1..Len(lastCall'.steps) : \E j \in (i + 1)..Len(lastCall'.steps) :
          /\ lastCall'.steps[i] = "click"
          /\ lastCall'.steps[j] = "write"
          /\ \A k \in 1..Len(lastCall'.steps) : k # i => lastCall'.steps[k] # "click"

\* a click of the given kind on the record's account, not later than the record
ClickBehind(kind, r) ==
    \E k \in 1..Len(clickLog) :
        clickLog[k].kind = kind /\ clickLog[k].user = r.username /\ clickLog[k].time <= r.time

\* C30: a step that writes a followed record of u, or an unfollowed record of u without
\* noActionTaken, is a call on u that clicked the follow, respectively unfollow, control
\* of u once and wrote after the click, the click being the newest one issued; and every
\* such record the ledger holds has its click on the same account behind it
C30_RecordOnlyAfterClick ==
    /\ [][\A u \in Users :
            /\ RecordsFor(prevFollowedUsers', u) \ RecordsFor(prevFollowedUsers, u) # {}
                  => ClickedThenWrote("follow", u)
            /\ (\E r \in RecordsFor(prevUnfollowedUsers', u) \ RecordsFor(prevUnfollowedUsers, u) :
                    ~r.noActionTaken)
                  => ClickedThenWrote("unfollow", u)]_vars
    /\ [](/\ \A k \in 1..Len(prevFollowedUsers) : ClickBehind("follow", prevFollowedUsers[k])
          /\ \A k \in 1..Len(prevUnfollowedUsers) :
                ~prevUnfollowedUsers[k].noActionTaken => ClickBehind("unfollow", prevUnfollowedUsers[k]))

\* the ledger holds a followed record and a plain unfollowed record of alice, each
\* behind its click, the unfollow being the newest call
C30_Witness ==
    /\ lastCall.op = "unfollowUser"
    /\ lastCall.steps = <<"click", "write">>
    /\ RecordsFor(prevFollowedUsers, "alice") # {}
    /\ \E r \in RecordsFor(prevUnfollowedUsers, "alice") : ~r.noActionTaken
    /\ Len(clickLog) = 2
    /\ clickLog[1].kind = "follow"
    /\ clickLog[2].kind = "unfollow"

----------------------------------------------------------------------------
(* SpecRestrict: one call of followUserRespectingRestrictions under configured bounds,
   on profiles of several sizes *)

\* the configured bounds: none, one of the four, or all
BoundSets ==
    {[DefaultOptions EXCEPT !.followUserMaxFollowers = b[1], !.followUserMaxFollowing = b[2],
                            !.followUserMinFollowers = b[3], !.followUserMinFollowing = b[4]] :
        b \in {<<Null, Null, Null, Null>>, <<5, Null, Null, Null>>, <<Null, 5, Null, Null>>,
               <<Null, Null, 2, Null>>, <<Null, Null, Null, 2>>, <<5, 5, 2, 2>>}}

RestrictOptions ==
    {[o EXCEPT !.dryRun = d, !.shouldFollowUser = f] : o \in BoundSets, d \in BOOLEAN, f \in BOOLEAN}

ProfileCounts == 1..MaxCount \cup {30}

RestrictProfiles ==
    {Profile(a, b, isPrivate, accept) :
        a \in ProfileCounts, b \in {0} \cup ProfileCounts, isPrivate \in BOOLEAN, accept \in BOOLEAN}

\* the executor's answers: no page, no data, or the data of a profile and a confirmed follow
RestrictEnv ==
    NavFails \cup {EnvBase, [EnvBase EXCEPT !.data = "timeout"]}
    \cup {[EnvBase EXCEPT !.data = "page", !.profile = p, !.after = "Following"] : p \in RestrictProfiles}

InitRestrict ==
    /\ IdleCursor
    /\ prevFollowedUsers \in {<<>>, <<FollowedUser("alice", 0, FALSE, FALSE)>>}
    /\ prevUnfollowedUsers = <<>>
    /\ prevLikedPhotos = <<>>
    /\ followedDb = JsonFile(prevFollowedUsers)
    /\ unfollowedDb = AbsentFile
    /\ likedPhotosDb = AbsentFile
    /\ now = 0
    /\ pc = "ready"
    /\ lastQuery = NoQuery
    /\ dbHist = NewHist(FALSE)
    /\ options \in RestrictOptions
    /\ rel = [u \in Users |-> "Follow"]
    /\ url = ""
    /\ userDataCache = [u \in Users |-> NoData]
    /\ cookies = TRUE
    /\ clickLog = <<>>
    /\ lastCall = NoCall
    /\ loop = NoLoop

\* lines 958-1004: the call, its skipPrivate argument kept with its record
RestrictedFollow(username, skipPrivate) ==
    /\ pc = "ready"
    /\ lastCall.op = "none"
    /\ \E e \in RestrictEnv :
          /\ SetWorld(followUserRespectingRestrictions(World, username, skipPrivate, e).w)
          /\ lastCall' = [CallRecord("followUserRespectingRestrictions", username,
                                     followUserRespectingRestrictions(World, username, skipPrivate, e))
                          EXCEPT !.skipPrivate = skipPrivate]
    /\ UNCHANGED <<options, loop, NotFlow>>

NextRestrict == \E skipPrivate \in BOOLEAN : RestrictedFollow("alice", skipPrivate)

SpecRestrict == InitRestrict /\ [][NextRestrict]_vars

\* the profile p is turned down by the configuration
TurnedDown(p, skipPrivate) ==
    \/ p.isPrivate /\ skipPrivate
    \/ options.followUserMaxFollowers # Null /\ p.followedByCount > options.followUserMaxFollowers
    \/ options.followUserMinFollowers # Null /\ p.followedByCount < options.followUserMinFollowers
    \/ options.followUserMaxFollowing # Null /\ p.followsCount > options.followUserMaxFollowing
    \/ options.followUserMinFollowing # Null /\ p.followsCount < options.followUserMinFollowing
    \/ IF p.followsCount = 0
       THEN \/ p.followedByCount * options.followUserRatioMax[2] > options.followUserRatioMax[1]
            \/ p.followedByCount * options.followUserRatioMin[2] < options.followUserRatioMin[1]
       ELSE \/ p.followedByCount * options.followUserRatioMax[2] > options.followUserRatioMax[1] * p.followsCount
            \/ p.followedByCount * options.followUserRatioMin[2] < options.followUserRatioMin[1] * p.followsCount
    \/ options.shouldFollowUser /\ ~p.accept

\* the call went on to followUser
FollowUserInvoked == \E k \in 1..Len(lastCall.calls) : lastCall.calls[k] = "followUser"

\* C28: followUserRespectingRestrictions goes on to followUser exactly when the account
\* has no followed record, profile data was obtained, and the profile is not turned down
\* by privacy with skipPrivate, a configured count bound, the ratio bounds or a
\* configured predicate; when it does not go on and raises nothing it returns false with
\* no click and no write, the ledger being as before
C28_FollowIffAllowed ==
    lastCall.op = "followUserRespectingRestrictions" =>
        /\ FollowUserInvoked <=>
              /\ ~lastCall.hadRecord
              /\ userDataCache[lastCall.user].known
              /\ ~TurnedDown(userDataCache[lastCall.user], lastCall.skipPrivate)
        /\ (~FollowUserInvoked /\ ~lastCall.threw) =>
              /\ lastCall.ret = "false"
              /\ lastCall.clicks = 0
              /\ lastCall.writes = 0
              /\ prevFollowedUsers \in {<<>>, <<FollowedUser("alice", 0, FALSE, FALSE)>>}
              /\ prevUnfollowedUsers = <<>>

\* a private profile inside every bound was followed because skipPrivate was not set,
\* with all four bounds and a predicate configured
C28_Witness ==
    /\ lastCall.op = "followUserRespectingRestrictions"
    /\ FollowUserInvoked
    /\ lastCall.ret = "true"
    /\ userDataCache["alice"].isPrivate
    /\ ~lastCall.skipPrivate
    /\ options.shouldFollowUser
    /\ options.followUserMaxFollowers = 5
    /\ options.followUserMinFollowing = 2

----------------------------------------------------------------------------
(* SpecLike: one call of likeUserImages on a profile page with several images *)

\* what the page shows once an image is opened
Media == {"ok", "declined", "dialogNotFound", "sectionNotFound", "likeNotFound", "closeNotFound"}

\* the error of lines 849-874 and 921-927 for what the page shows, "" when there is none
MediaError(m) ==
    CASE m = "dialogNotFound" -> "Dialog not found"
      [] m = "sectionNotFound" -> "Like button section not found"
      [] m = "likeNotFound" -> "Like button not found (aria-label)"
      [] m = "closeNotFound" -> "Close button not found (aria-label)"
      [] OTHER -> ""

\* the href of the k-th image of the page
Href(k) == <<"p1", "p2", "p3", "p4">>[k]

\* lines 877-913: likeImage(), the media predicate declining or not
likeImageOf(w, username, k, m, e) ==
    IF m = "declined" THEN w ELSE onImageLiked(LikeClick(w, username), username, Href(k), e)

\* a loop body that logs the failure of a media item and goes on to the next
LikeOneImage_skipping(w, username, k, m, e) ==
    IF m \in {"dialogNotFound", "sectionNotFound", "likeNotFound"} THEN Ok(Stepped(w, "open"), "void")
    ELSE IF m = "closeNotFound"
         THEN Ok(IF options.dryRun THEN Stepped(w, "open")
                 ELSE likeImageOf(Stepped(w, "open"), username, k, m, e), "void")
    ELSE Ok(Stepped(IF options.dryRun THEN Stepped(w, "open")
                    ELSE likeImageOf(Stepped(w, "open"), username, k, m, e), "close"), "void")

\* lines 843-931: the loop body for the k-th image
LikeOneImage(w, username, k, m, e) ==
    IF m \in {"dialogNotFound", "sectionNotFound", "likeNotFound"}
    THEN Throw(Stepped(w, "open"), MediaError(m))
    ELSE IF m = "closeNotFound"
         THEN Throw(IF options.dryRun THEN Stepped(w, "open")
                    ELSE likeImageOf(Stepped(w, "open"), username, k, m, e), MediaError(m))
    ELSE Ok(Stepped(IF options.dryRun THEN Stepped(w, "open")
                    ELSE likeImageOf(Stepped(w, "open"), username, k, m, e), "close"), "void")

RECURSIVE LikeImagesFrom(_, _, _, _, _)
\* lines 842-932: for (const image of images), from the k-th image on
LikeImagesFrom(r, username, images, k, e) ==
    IF r.threw \/ k > Len(images) THEN r
    ELSE LikeImagesFrom(LikeOneImage(r.w, username, k, images[k], e), username, images, k + 1, e)

\* lines 831-841: images = imagesShuffled.slice(0, numImagesToLike)
ImagesToLike(imagesShuffled, numImagesToLike) ==
    SubSeq(imagesShuffled, 1, IF numImagesToLike < Len(imagesShuffled) THEN numImagesToLike ELSE Len(imagesShuffled))

\* line 955, after navigateToUserAndGetData: the page code on the images chosen
LikeImagesOnPage(r, username, images, e) ==
    IF r.threw THEN r ELSE LikeImagesFrom(Ok(r.w, "void"), username, images, 1, e)

\* lines 941-956; the page code's shuffle gave imagesShuffled and its draw numImagesToLike
likeUserImagesOf(w, username, likeImagesMin, likeImagesMax, imagesShuffled, numImagesToLike, e) ==
    IF likeImagesMax < likeImagesMin \/ likeImagesMin < 1 THEN Throw(w, "Invalid arguments")
    ELSE LikeImagesOnPage(navigateToUserAndGetData(w, username, e), username,
                          ImagesToLike(imagesShuffled, numImagesToLike), e)

RECURSIVE SeqsUpTo(_, _)
SeqsUpTo(S, n) ==
    IF n = 0 THEN {<<>>}
    ELSE SeqsUpTo(S, n - 1) \cup {Append(q, x) : q \in {p \in SeqsUpTo(S, n - 1) : Len(p) = n - 1}, x \in S}

\* the executor's answers of a call: no page, or the page
LikeEnv == NavFails \cup {[EnvBase EXCEPT !.data = "page", !.profile = Profile(3, 3, FALSE, TRUE)]}

InitLike ==
    /\ IdleCursor
    /\ prevFollowedUsers = <<>>
    /\ prevUnfollowedUsers = <<>>
    /\ prevLikedPhotos \in {<<>>, <<LikedPhoto("bob", "p1", 0)>>}
    /\ followedDb = AbsentFile
    /\ unfollowedDb = AbsentFile
    /\ likedPhotosDb = IF prevLikedPhotos = <<>> THEN AbsentFile ELSE JsonFile(prevLikedPhotos)
    /\ now = 0
    /\ pc = "ready"
    /\ lastQuery = NoQuery
    /\ dbHist = NewHist(FALSE)
    /\ options \in {[DefaultOptions EXCEPT !.dryRun = d] : d \in BOOLEAN}
    /\ rel = [u \in Users |-> "Follow"]
    /\ url = ""
    /\ userDataCache = [u \in Users |-> NoData]
    /\ cookies = TRUE
    /\ clickLog = <<>>
    /\ lastCall = NoCall
    /\ loop = NoLoop

LikeUserImages(username, likeImagesMin, likeImagesMax) ==
    /\ pc = "ready"
    /\ lastCall.op = "none"
    /\ \E e \in LikeEnv, imagesShuffled \in SeqsUpTo(Media, MaxImages),
          numImagesToLike \in likeImagesMin..likeImagesMax :
          /\ SetWorld(likeUserImagesOf(World, username, likeImagesMin, likeImagesMax,
                                       imagesShuffled, numImagesToLike, e).w)
          /\ lastCall' = [CallRecord("likeUserImages", username,
                                     likeUserImagesOf(World, username, likeImagesMin, likeImagesMax,
                                                      imagesShuffled, numImagesToLike, e))
                          EXCEPT !.images = ImagesToLike(imagesShuffled, numImagesToLike)]
    /\ UNCHANGED <<options, loop, NotFlow>>

NextLike == \E likeImagesMin \in 1..2, likeImagesMax \in 1..MaxImages : LikeUserImages("alice", likeImagesMin, likeImagesMax)

SpecLike == InitLike /\ [][NextLike]_vars

\* the number of the call's steps of the given kind
StepsOf(step) == Len(SelectSeq(lastCall.steps, LAMBDA x : x = step))

\* the first media item of the call that fails, 0 when none does
FirstFailure ==
    IF \E k \in 1..Len(lastCall.images) : MediaError(lastCall.images[k]) # ""
    THEN CHOOSE k \in 1..Len(lastCall.images) :
            /\ MediaError(lastCall.images[k]) # ""
            /\ \A l \in 1..(k - 1) : MediaError(lastCall.images[l]) = ""
    ELSE 0

\* the like records the call appended
LikedInCall == SubSeq(prevLikedPhotos, Len(prevLikedPhotos) - lastCall.writes + 1, Len(prevLikedPhotos))

\* the hrefs a call likes up to the item k: those of the items the page lets it like
RECURSIVE LikedUpTo(_, _)
LikedUpTo(images, k) ==
    IF k = 0 THEN <<>>
    ELSE IF images[k] \in {"ok", "closeNotFound"} THEN Append(LikedUpTo(images, k - 1), Href(k))
    ELSE LikedUpTo(images, k - 1)

\* C31: a likeUserImages call that reached the page and met a failing media item raises
\* that item's error; it has opened the items up to the failing one and none after it,
\* liked none after it, and the liked log holds what it held before followed by the
\* likes made up to the failure
C31_MediaFailureAborts ==
    (/\ lastCall.op = "likeUserImages"
     /\ lastCall.err \notin NavigationErrors \cup {"Invalid arguments"}
     /\ FirstFailure > 0) =>
        /\ lastCall.threw
        /\ lastCall.err = MediaError(lastCall.images[FirstFailure])
        /\ StepsOf("open") = FirstFailure
        /\ StepsOf("click") <= FirstFailure
        /\ Len(prevLikedPhotos) >= lastCall.writes
        /\ SubSeq(prevLikedPhotos, 1, Len(prevLikedPhotos) - lastCall.writes)
              \in {<<>>, <<LikedPhoto("bob", "p1", 0)>>}
        /\ [k \in 1..Len(LikedInCall) |-> LikedInCall[k].href]
              = IF options.dryRun THEN <<>> ELSE LikedUpTo(lastCall.images, FirstFailure)
        /\ \A k \in 1..Len(LikedInCall) : LikedInCall[k].username = lastCall.user

\* the second of three items failed after the first was liked and recorded
C31_Witness ==
    /\ lastCall.op = "likeUserImages"
    /\ Len(lastCall.images) = 3
    /\ lastCall.images[1] = "ok"
    /\ lastCall.images[2] = "dialogNotFound"
    /\ lastCall.images[3] = "ok"
    /\ lastCall.threw
    /\ Len(prevLikedPhotos) = 2
    /\ prevLikedPhotos[2].href = "p1"

----------------------------------------------------------------------------
(* SpecWorkflow: init() and the unfollow workflows, called in any order on an instance
   that has been constructed; the accounts the own account follows are given as a list *)

\* the id the remote gives for the own account
OwnId == "id1"

Workflows ==
    {"unfollowNonMutualFollowers", "unfollowAllUnknown", "unfollowOldFollowed", "listManuallyFollowedUsers"}

\* the time the instance is constructed at: five days after the oldest record
WorkflowStart == 5 * dayMs

\* lines 373-377
haveRecentlyFollowedUser(w, username) ==
    /\ getPrevFollowedUser(w.F, username)
    /\ w.t - w.F[KeyIndex(w.F, username)].time < options.dontUnfollowUntilTimeElapsed

\* lines 1342-1368, after navigateToUserAndGetData: every throw ends in the catch, which
\* returns undefined; followsMe is what the list of the account shows
FollowsMeOnPage(r, followsMe) ==
    IF r.threw \/ ~r.data.known THEN Ok(r.w, "undefined") ELSE Ok(r.w, followsMe)

\* lines 1337-1369
doesUserFollowMe(w, username, e, followsMe) ==
    FollowsMeOnPage(navigateToUserAndGetData(Called(w, "doesUserFollowMe"), username, e), followsMe)

\* what condition(username) returned, the world it left and what doesUserFollowMe returned
Checked(w, pass, followsMe) == [w |-> w, pass |-> pass, followsMe |-> followsMe]

\* a condition that takes a failed follow-back check as "does not follow back"
FollowsMeChecked_unlessTrue(r) == Checked(r.w, r.ret # "true", r.ret)

\* lines 1392-1394: return followsMe === false
FollowsMeChecked(r) == Checked(r.w, r.ret = "false", r.ret)

\* lines 1384-1395: the condition of unfollowNonMutualFollowers
NonMutualCondition(w, username, e, followsMe) ==
    IF username \in options.excludeUsers THEN Checked(w, FALSE, "")
    ELSE IF haveRecentlyFollowedUser(w, username) THEN Checked(w, FALSE, "")
    ELSE FollowsMeChecked(doesUserFollowMe(w, username, e, followsMe))

\* lines 1409-1413: the condition of unfollowAllUnknown
UnknownCondition(w, username) ==
    IF getPrevFollowedUser(w.F, username) THEN Checked(w, FALSE, "")
    ELSE Checked(w, username \notin options.excludeUsers, "")

\* a condition that takes an account without a followed record as old enough
OldCondition_noRecord(w, username, ageInDays) ==
    IF ~getPrevFollowedUser(w.F, username) THEN Checked(w, username \notin options.excludeUsers, "")
    ELSE IF username \in options.excludeUsers THEN Checked(w, FALSE, "")
    ELSE Checked(w, w.t - w.F[KeyIndex(w.F, username)].time > ageInDays * dayMs, "")

\* lines 1430-1435: the condition of unfollowOldFollowed; the age in days is the age in
\* ticks over dayMs
OldCondition(w, username, ageInDays) ==
    IF ~getPrevFollowedUser(w.F, username) THEN Checked(w, FALSE, "")
    ELSE IF username \in options.excludeUsers THEN Checked(w, FALSE, "")
    ELSE Checked(w, w.t - w.F[KeyIndex(w.F, username)].time > ageInDays * dayMs, "")

Condition(op, w, username, ageInDays, e, followsMe) ==
    CASE op = "unfollowNonMutualFollowers" -> NonMutualCondition(w, username, e, followsMe)
      [] op = "unfollowAllUnknown" -> UnknownCondition(w, username)
      [] OTHER -> OldCondition(w, username, ageInDays)

\* the records of the followed collection: none, or one of three ages at WorkflowStart,
\* five days, exactly three days, and a tick less than three days
RecordTimes == {0, 2 * dayMs, 2 * dayMs + 1}

FollowedAges ==
    {<<>>} \cup {<<FollowedUser("alice", t, FALSE, FALSE)>> : t \in RecordTimes}
    \cup {<<FollowedUser("bob", t, FALSE, FALSE)>> : t \in RecordTimes}
    \cup {<<FollowedUser("alice", t, FALSE, FALSE), FollowedUser("bob", 0, f, FALSE)>> :
            t \in RecordTimes, f \in BOOLEAN}

InitWorkflow ==
    /\ IdleCursor
    /\ prevFollowedUsers \in FollowedAges
    /\ prevUnfollowedUsers = <<>>
    /\ prevLikedPhotos = <<>>
    /\ followedDb = IF prevFollowedUsers = <<>> THEN AbsentFile ELSE JsonFile(prevFollowedUsers)
    /\ unfollowedDb = AbsentFile
    /\ likedPhotosDb = AbsentFile
    /\ now = WorkflowStart
    /\ pc = "ready"
    /\ lastQuery = NoQuery
    /\ dbHist = NewHist(FALSE)
    /\ options \in {[DefaultOptions EXCEPT !.dryRun = d, !.excludeUsers = x] :
                       d \in BOOLEAN, x \in {{}, {"alice"}}}
    /\ rel = [u \in Users |-> "Following"]
    /\ url = ""
    /\ userDataCache = [u \in Users |-> NoData]
    /\ cookies = TRUE
    /\ clickLog = <<>>
    /\ lastCall = NoCall
    /\ loop = NoLoop

\* lines 1238-1334: init(); it fails before line 1333, or sets myUserId to the id of the
\* own account. The browser is left on a page of no candidate.
init(outcome) ==
    /\ pc = "ready"
    /\ loop.op = "none"
    /\ myUserId' = IF outcome = "ok" THEN OwnId ELSE myUserId
    /\ url' = ""
    /\ lastCall' = [NoCall EXCEPT !.op = "init", !.threw = outcome # "ok",
                                  !.err = CASE outcome = "ok" -> ""
                                            [] outcome = "noUsername" -> "Don't know what's my username"
                                            [] outcome = "noUserData" -> "Failed to load my user data"
                                            [] OTHER -> "Navigate to user failed"]
    /\ UNCHANGED <<ledgerVars, fileVars, now, pc, lastQuery, dbHist, listing, gen, pulled, requests,
                   options, rel, userDataCache, cookies, clickLog, loop>>

AssertionError == "AssertionError"

\* a workflow that asserts its arguments only
WorkflowAsserts_ageOnly(op, ageInDays) ==
    IF op = "unfollowOldFollowed" /\ ageInDays = Null THEN "Age in days is required" ELSE ""

\* lines 1419 and 1378, 1403, 1424, 1441: the assertions a workflow begins with
WorkflowAsserts(op, ageInDays) ==
    IF op = "unfollowOldFollowed" /\ ageInDays = Null THEN "Age in days is required"
    ELSE IF myUserId = Undefined THEN AssertionError
    ELSE ""

\* lines 1440-1448: the accounts followed that have no followed record and are not excluded
ManuallyFollowed(allFollowing) ==
    SelectSeq(allFollowing, LAMBDA u : ~getPrevFollowedUser(prevFollowedUsers, u) /\ u \notin options.excludeUsers)

\* lines 1371-1448: the call of a workflow up to its first candidate; allFollowing is the
\* list the remote gives for the own account
CallWorkflow(op, allFollowing, ageInDays) ==
    /\ pc = "ready"
    /\ loop.op = "none"
    /\ lastCall' = [NoCall EXCEPT !.op = op, !.threw = WorkflowAsserts(op, ageInDays) # "",
                                  !.err = WorkflowAsserts(op, ageInDays)]
    /\ loop' = IF WorkflowAsserts(op, ageInDays) # "" THEN loop
               ELSE IF op = "listManuallyFollowedUsers"
                    THEN [NoLoop EXCEPT !.op = op, !.list = ManuallyFollowed(allFollowing)]
               ELSE [NoLoop EXCEPT !.op = op, !.list = allFollowing, !.age = ageInDays,
                                   !.ret = IF allFollowing = <<>> THEN 0 ELSE Null]
    /\ pc' = IF WorkflowAsserts(op, ageInDays) = "" /\ op # "listManuallyFollowedUsers" /\ allFollowing # <<>>
             THEN "unfollow" ELSE "ready"
    /\ UNCHANGED <<ledgerVars, fileVars, now, lastQuery, dbHist, cursorVars,
                   options, rel, url, userDataCache, cookies, clickLog>>

\* the executor's answers for one candidate
WorkflowEnv ==
    NavFails \cup {[EnvBase EXCEPT !.data = "page", !.profile = Profile(10, 10, FALSE, TRUE), !.after = a] :
                      a \in {"Follow", "Following"}}

\* the state after one candidate of a workflow
AfterWorkflowCandidate(s, username, e, followsMe) ==
    /\ SetWorld(s.w)
    /\ loop' = IF ~s.returned /\ s.l.next > Len(s.l.list) THEN [s.l EXCEPT !.ret = s.l.j] ELSE s.l
    /\ pc' = IF s.returned \/ s.l.next > Len(s.l.list) THEN "ready" ELSE "unfollow"
    /\ lastCall' = [NoCall EXCEPT !.op = "unfollowCandidate", !.user = username,
                                  !.threw = s.caught, !.ret = followsMe,
                                  !.clicks = Len(s.w.clicks) - Len(clickLog),
                                  !.writes = s.w.writes, !.steps = s.w.steps, !.calls = s.w.calls,
                                  !.control = rel[username],
                                  !.hadRecord = HasKey(prevFollowedUsers, username),
                                  !.nav = IF s.w.navs > 0 THEN e.nav ELSE "none"]

\* line 1090: if (await condition(username)), then the try block
AfterChecked(c, username, e) ==
    AfterWorkflowCandidate(
        IF c.pass THEN UnfollowCandidate(c.w, username, [loop EXCEPT !.next = @ + 1], e)
        ELSE [w |-> c.w, l |-> [loop EXCEPT !.next = @ + 1], caught |-> FALSE, returned |-> FALSE],
        username, e, c.followsMe)

\* lines 1084-1132 with the workflow's condition: the next account followed
WorkflowCandidate ==
    /\ pc = "unfollow"
    /\ loop.op \in Workflows
    /\ now < WorkflowStart + MaxListClock
    /\ \E e \in WorkflowEnv, followsMe \in {"true", "false", "undefined"} :
          AfterChecked(Condition(loop.op, World, loop.list[loop.next], loop.age, e, followsMe),
                       loop.list[loop.next], e)
    /\ UNCHANGED <<options, lastQuery, dbHist, cursorVars>>

NextWorkflow ==
    \/ \E outcome \in {"ok", "noUsername", "noUserData", "navigateFails"} : init(outcome)
    \/ \E op \in Workflows \ {"unfollowOldFollowed"}, allFollowing \in UserLists : CallWorkflow(op, allFollowing, Null)
    \/ \E allFollowing \in UserLists, ageInDays \in {Null, 2, 3} :
          CallWorkflow("unfollowOldFollowed", allFollowing, ageInDays)
    \/ WorkflowCandidate

SpecWorkflow == InitWorkflow /\ [][NextWorkflow]_vars

\* the step of a workflow over one candidate, which it tried to unfollow
TriedToUnfollow(op) ==
    /\ pc = "unfollow"
    /\ loop.op = op
    /\ loop'.next = loop.next + 1
    /\ "tryUnfollow" \in Range(lastCall'.calls)

\* the followed record of username
Previous(username) == prevFollowedUsers[KeyIndex(prevFollowedUsers, username)]

\* C35: unfollowNonMutualFollowers tries to unfollow an account only if the account is
\* not in excludeUsers, has no followed record younger than
\* dontUnfollowUntilTimeElapsed, and doesUserFollowMe returned false for it; when
\* doesUserFollowMe returned undefined the account is neither tried nor clicked
C35_NonMutualCondition ==
    [][/\ TriedToUnfollow("unfollowNonMutualFollowers") =>
            /\ lastCall'.user \notin options.excludeUsers
            /\ ~(/\ HasKey(prevFollowedUsers, lastCall'.user)
                 /\ now - Previous(lastCall'.user).time < options.dontUnfollowUntilTimeElapsed)
            /\ lastCall'.ret = "false"
       /\ (/\ pc = "unfollow"
           /\ loop.op = "unfollowNonMutualFollowers"
           /\ loop'.next = loop.next + 1
           /\ lastCall'.ret = "undefined") =>
            /\ "tryUnfollow" \notin Range(lastCall'.calls)
            /\ "unfollowUser" \notin Range(lastCall'.calls)
            /\ lastCall'.clicks = 0
            /\ prevUnfollowedUsers' = prevUnfollowedUsers]_vars

\* bob, followed exactly three days ago and not following back, was unfollowed
C35_Witness ==
    /\ loop.op = "unfollowNonMutualFollowers"
    /\ lastCall.op = "unfollowCandidate"
    /\ lastCall.user = "bob"
    /\ lastCall.ret = "false"
    /\ lastCall.hadRecord
    /\ lastCall.clicks = 1
    /\ "alice" \in options.excludeUsers

\* C36: unfollowOldFollowed tries to unfollow an account only if the followed collection
\* holds a record of it older than ageInDays days and the account is not in
\* excludeUsers; it never asks whether the account follows back, and an account without
\* a followed record is not tried
C36_OldFollowedCondition ==
    [][/\ TriedToUnfollow("unfollowOldFollowed") =>
            /\ HasKey(prevFollowedUsers, lastCall'.user)
            /\ now - Previous(lastCall'.user).time > loop.age * dayMs
            /\ lastCall'.user \notin options.excludeUsers
       /\ (pc = "unfollow" /\ loop.op = "unfollowOldFollowed" /\ loop'.next = loop.next + 1) =>
            /\ "doesUserFollowMe" \notin Range(lastCall'.calls)
            /\ ~HasKey(prevFollowedUsers, lastCall'.user) =>
                  /\ "tryUnfollow" \notin Range(lastCall'.calls)
                  /\ lastCall'.clicks = 0]_vars

\* alice, followed five days ago, was unfollowed with ageInDays 3
C36_Witness ==
    /\ loop.op = "unfollowOldFollowed"
    /\ loop.age = 3
    /\ lastCall.op = "unfollowCandidate"
    /\ lastCall.user = "alice"
    /\ lastCall.hadRecord
    /\ lastCall.clicks = 1

\* C40: a workflow called while the own user id is unset fails with an assertion error
\* and leaves the browser, the remote and the ledger untouched; an init() that has
\* completed has set the own user id, and once set it keeps its value
C40_OwnUserIdAsserted ==
    /\ [][/\ (lastCall' # lastCall /\ lastCall'.op \in Workflows /\ myUserId = Undefined) =>
               /\ lastCall'.threw
               /\ lastCall'.err \in {AssertionError, "Age in days is required"}
               /\ UNCHANGED <<ledgerVars, fileVars, cursorVars, url, userDataCache, clickLog, loop, pc>>
          /\ myUserId # Undefined => myUserId' = myUserId]_vars
    /\ []((lastCall.op = "init" /\ ~lastCall.threw) => myUserId = OwnId)
    /\ [](loop.op \in Workflows => myUserId = OwnId)

\* unfollowAllUnknown failed on the assertion after an init() that had failed
C40_Witness ==
    /\ lastCall.op = "unfollowAllUnknown"
    /\ lastCall.threw
    /\ lastCall.err = AssertionError
    /\ myUserId = Undefined
    /\ loop.op = "none"
    /\ url = ""

====
